---- MODULE Spec2Model ----
(***************************************************************************)
(* Containust: dependency graph, deployment engine, Linux native backend,  *)
(* state store, log store and the in-memory Container state machine.       *)
(***************************************************************************)
EXTENDS Integers, Sequences, FiniteSets, TLC

VARIABLES
    g_nodes,      \* DependencyGraph.graph: node weights (names), by node index
    g_edges,      \* DependencyGraph.graph: edges <<source, target>>, in insertion order
    g_deps,       \* the add_dependency calls made so far: <<dependent, dependency>>
    g_result,     \* what resolve_order last returned ("none" before any call)
    stateFile,    \* <data_dir>/state.json: whether it exists, and its entries
    logFiles,     \* the ids whose log file <data_dir>/logs/<id>.log exists
    nextId,       \* the identifiers ContainerId::generate has handed out so far
    container,    \* an in-memory Container (container.rs), once constructed
    last,         \* the last call made: operation, argument, result, and what
                  \* the container it names was before the call
    d_backend,    \* Engine.backend: "linux" (LinuxNativeBackend) or "vm" (VMBackend)
    d_file,       \* the composition the .ctst file declares: components, connections
    d_pc,         \* where Engine::deploy stands
    d_order,      \* deploy: `order`, the names resolve_deploy_order returned
    d_i,          \* deploy: index in `order` of the component being deployed
    d_cur,        \* deploy_component: `id`, the id that create returned
    d_deployed,   \* deploy: `deployed`
    d_trace,      \* the backend calls deploy has made, with what each returned
    d_dirs,       \* the directories deploy has created on disk
    d_ret,        \* what deploy returned ("none" until it returns)
    r_detach,     \* ctst run: RunArgs.detach
    r_pc,         \* ctst run: where the command stands
    r_running,    \* wait_for_shutdown: the AtomicBool `running` (None before it exists)
    r_list,       \* stop_all: `containers`, what backend.list returned
    r_k,          \* stop_all: index in `containers` of the entry the loop is at
    r_stops,      \* stop_all: the backend.stop calls made, with what each returned
    r_ret,        \* what stop_all returned ("none" until it returns)
    v_process,    \* VMBackend.vm_process: None, or the QEMU child with its hostfwd rules
    v_forwarded,  \* VMBackend.forwarded_ports
    v_creates,    \* the VMBackend::create calls made: the config's port, the result
    a_store,      \* guest agent: containers' metadata, pid files, rootfs and log files
    a_request,    \* guest agent: the request line of the last connection
    a_reply,      \* guest agent: the lines the handler wrote to the last connection
    w_file,       \* auto-wiring: the composition handed to resolve_connections
    w_resolved,   \* auto-wiring: what resolve_connections returned
    w_process,    \* auto-wiring: the environment of the last spawned process
    c_file,       \* validator: the composition handed to validate
    c_ret,        \* validator: what validate returned
    j_state,      \* state file round trip: the StateFile the caller saves
    j_disk,       \* state file round trip: the file on disk, absent or with its JSON text
    j_pc,         \* state file round trip: how far the caller is
    j_loaded,     \* state file round trip: what load_state last returned
    j_before,     \* state file round trip: the text on disk before the second save
    k_file,       \* image catalog: catalog.json, absent or with its JSON text
    k_last,       \* image catalog: the last call, its result and what list gave before it
    m_input,      \* parse_memory: the string, and the number and suffix it was written from
    m_ret,        \* parse_memory: what the call did
    t_pc,         \* the position of each thread inside ensure_vm_running or stop_vm
    t_owner,      \* the thread that holds the vm_process mutex, 0 when it is free
    t_child,      \* VMBackend.vm_process: the handle of the QEMU child
    t_qemu,       \* every QEMU process spawned by this backend, in spawn order
    t_local,      \* the child a thread took out of the handle in stop_vm, 0 for none
    t_forwarded,  \* VMBackend.forwarded_ports
    t_ret,        \* what the last call of each thread returned
    t_drop,       \* the life of the backend: live, dropping, dropped
    p_pc,         \* send_rpc: idle, attempt (inside the loop) or returned
    p_request,    \* the request line of the call under way
    p_attempt,    \* how many attempts the call has made
    p_prev,       \* how the last attempt ended
    p_last,       \* last_err of send_rpc
    p_store,      \* the store of the guest agent that answers the calls
    p_executed,   \* how often the agent ran the handler for the call under way
    p_ret,        \* what send_rpc returned
    o_pc,         \* packing, or reading the archive back
    o_writer,     \* the CpioWriter: the bytes written, ino and pos
    o_written,    \* the entries handed to write_entry, in order
    o_at,         \* the CpioReader: how many bytes of the archive it has consumed
    o_read,       \* what next_entry returned, call by call
    q_pc,         \* drop_capabilities: idle, loop or returned
    q_keep,       \* the allowlist passed to drop_capabilities
    q_kernel,     \* the kernel: its last capability number, and whether the caller may drop
    q_cap,        \* the loop variable cap
    q_tried,      \* the numbers prctl(PR_CAPBSET_DROP) was called with
    q_bounding,   \* the capability bounding set of the process
    q_ret         \* what drop_capabilities returned

graphVars == <<g_nodes, g_edges, g_deps, g_result>>

storeVars == <<stateFile, logFiles, nextId, container, last>>

deployVars ==
    <<d_backend, d_file, d_pc, d_order, d_i, d_cur, d_deployed, d_trace, d_dirs, d_ret>>

runVars == <<r_detach, r_pc, r_running, r_list, r_k, r_stops, r_ret>>

\* The variables of the components modelled after the engine's deployment.
vmVars == <<v_process, v_forwarded, v_creates>>

agentVars == <<a_store, a_request, a_reply>>

wireVars == <<w_file, w_resolved, w_process>>

checkVars == <<c_file, c_ret>>

jsonVars == <<j_state, j_disk, j_pc, j_loaded, j_before>>

catalogVars == <<k_file, k_last>>

memoryVars == <<m_input, m_ret>>

threadVars == <<t_pc, t_owner, t_child, t_qemu, t_local, t_forwarded, t_ret, t_drop>>

rpcVars == <<p_pc, p_request, p_attempt, p_prev, p_last, p_store, p_executed, p_ret>>

cpioVars == <<o_pc, o_writer, o_written, o_at, o_read>>

capVars == <<q_pc, q_keep, q_kernel, q_cap, q_tried, q_bounding, q_ret>>

restVars == <<runVars, vmVars, agentVars, wireVars, checkVars, jsonVars, catalogVars, memoryVars, threadVars, rpcVars, cpioVars, capVars>>

\* What the actions of one component leave alone among the other components.
runRest == <<vmVars, agentVars, wireVars, checkVars, jsonVars, catalogVars, memoryVars, threadVars, rpcVars, cpioVars, capVars>>

vmRest == <<runVars, agentVars, wireVars, checkVars, jsonVars, catalogVars, memoryVars, threadVars, rpcVars, cpioVars, capVars>>

agentRest == <<runVars, vmVars, wireVars, checkVars, jsonVars, catalogVars, memoryVars, threadVars, rpcVars, cpioVars, capVars>>

wireRest == <<runVars, vmVars, agentVars, checkVars, jsonVars, catalogVars, memoryVars, threadVars, rpcVars, cpioVars, capVars>>

checkRest == <<runVars, vmVars, agentVars, wireVars, jsonVars, catalogVars, memoryVars, threadVars, rpcVars, cpioVars, capVars>>

jsonRest == <<runVars, vmVars, agentVars, wireVars, checkVars, catalogVars, memoryVars, threadVars, rpcVars, cpioVars, capVars>>

catalogRest == <<runVars, vmVars, agentVars, wireVars, checkVars, jsonVars, memoryVars, threadVars, rpcVars, cpioVars, capVars>>

memoryRest == <<runVars, vmVars, agentVars, wireVars, checkVars, jsonVars, catalogVars, threadVars, rpcVars, cpioVars, capVars>>

threadRest == <<runVars, vmVars, agentVars, wireVars, checkVars, jsonVars, catalogVars, memoryVars, rpcVars, cpioVars, capVars>>

rpcRest == <<runVars, vmVars, agentVars, wireVars, checkVars, jsonVars, catalogVars, memoryVars, threadVars, cpioVars, capVars>>

cpioRest == <<runVars, vmVars, agentVars, wireVars, checkVars, jsonVars, catalogVars, memoryVars, threadVars, rpcVars, capVars>>

capRest == <<runVars, vmVars, agentVars, wireVars, checkVars, jsonVars, catalogVars, memoryVars, threadVars, rpcVars, cpioVars>>

\* The variables of the graph, the store and the deployment.
baseVars == <<graphVars, storeVars, deployVars>>

vars ==
    <<g_nodes, g_edges, g_deps, g_result, stateFile, logFiles, nextId, container, last,
      d_backend, d_file, d_pc, d_order, d_i, d_cur, d_deployed, d_trace, d_dirs, d_ret,
      r_detach, r_pc, r_running, r_list, r_k, r_stops, r_ret,
      v_process, v_forwarded, v_creates,
      a_store, a_request, a_reply,
      w_file, w_resolved, w_process,
      c_file, c_ret,
      j_state, j_disk, j_pc, j_loaded, j_before,
      k_file, k_last,
      m_input, m_ret,
      t_pc, t_owner, t_child, t_qemu, t_local, t_forwarded, t_ret, t_drop,
      p_pc, p_request, p_attempt, p_prev, p_last, p_store, p_executed, p_ret,
      o_pc, o_writer, o_written, o_at, o_read,
      q_pc, q_keep, q_kernel, q_cap, q_tried, q_bounding, q_ret>>

\* ------------------------------------------------------------------ bounds
MaxNodes == 3
MaxEdges == 3

\* Names the callers give to the nodes they add, in the order they add them.
NodeNames == <<"api", "db", "cache", "web", "queue">>

NoResult == [kind |-> "none"]

\* ------------------------------------------------------------- error values
ConfigError(msg) == [kind |-> "Err", error |-> "Config", message |-> msg]

\* "cyclic dependency detected in component graph", word by word.
CyclicMessage == <<"cyclic", "dependency", "detected", "in", "component", "graph">>

\* ---------------------------------------------------------- graph (petgraph)
\* Neighbours of v over the edge list, most recently added edge first (the
\* adjacency list of petgraph::Graph is a linked list headed by the newest edge).
\* dir = "out": targets of the edges leaving v; dir = "in": sources of the edges
\* entering v (the Reversed adaptor).
RECURSIVE NeighborsFrom(_, _, _, _)
NeighborsFrom(edges, v, k, dir) ==
    IF k = 0 THEN <<>>
    ELSE LET e   == edges[k]
             src == IF dir = "out" THEN e[1] ELSE e[2]
             dst == IF dir = "out" THEN e[2] ELSE e[1]
         IN  (IF src = v THEN <<dst>> ELSE <<>>) \o NeighborsFrom(edges, v, k - 1, dir)

Neighbors(edges, v, dir) == NeighborsFrom(edges, v, Len(edges), dir)

Pop(stack) == SubSeq(stack, 1, Len(stack) - 1)

\* First visit of nx in toposort: push every neighbour not yet discovered; a
\* neighbour equal to nx is a self cycle.
RECURSIVE PushNeighbors(_, _, _, _, _)
PushNeighbors(stack, discovered, succs, k, nx) ==
    IF k > Len(succs) THEN [stack |-> stack, cycle |-> FALSE]
    ELSE IF succs[k] = nx THEN [stack |-> stack, cycle |-> TRUE]
    ELSE PushNeighbors(IF succs[k] \in discovered THEN stack ELSE Append(stack, succs[k]),
                       discovered, succs, k + 1, nx)

\* The inner `while let Some(&nx) = dfs.stack.last()` loop of toposort.
RECURSIVE DfsFinish(_, _)
DfsFinish(edges, st) ==
    IF st.cycle \/ st.stack = <<>> THEN st
    ELSE LET nx == st.stack[Len(st.stack)] IN
         IF nx \notin st.discovered
         THEN LET d == st.discovered \cup {nx}
                  r == PushNeighbors(st.stack, d, Neighbors(edges, nx, "out"), 1, nx)
              IN  DfsFinish(edges, [st EXCEPT !.stack = r.stack,
                                              !.discovered = d,
                                              !.cycle = r.cycle])
         ELSE DfsFinish(edges, [st EXCEPT !.stack = Pop(st.stack),
                                          !.finished = @ \cup {nx},
                                          !.finish_stack =
                                              IF nx \in st.finished THEN @ ELSE Append(@, nx)])

\* The outer `for i in g.node_identifiers()` loop of toposort over ids[k..].
RECURSIVE FinishAll(_, _, _, _)
FinishAll(edges, ids, k, st) ==
    IF st.cycle \/ k > Len(ids) THEN st
    ELSE IF ids[k] \in st.discovered THEN FinishAll(edges, ids, k + 1, st)
    ELSE FinishAll(edges, ids, k + 1,
                   DfsFinish(edges, [st EXCEPT !.stack = Append(@, ids[k])]))

Reverse(s) == [i \in 1..Len(s) |-> s[Len(s) + 1 - i]]

\* Dfs::next over the reversed graph: pop until an undiscovered node is found,
\* mark it, push its undiscovered neighbours, and yield it (0 = None).
RECURSIVE PushUndiscovered(_, _, _, _)
PushUndiscovered(stack, discovered, succs, k) ==
    IF k > Len(succs) THEN stack
    ELSE PushUndiscovered(IF succs[k] \in discovered THEN stack ELSE Append(stack, succs[k]),
                          discovered, succs, k + 1)

RECURSIVE DfsNext(_, _, _)
DfsNext(edges, stack, discovered) ==
    IF stack = <<>> THEN [node |-> 0, stack |-> stack, discovered |-> discovered]
    ELSE LET node == stack[Len(stack)]
             rest == Pop(stack)
         IN  IF node \notin discovered
             THEN LET d == discovered \cup {node}
                  IN  [node |-> node,
                       stack |-> PushUndiscovered(rest, d, Neighbors(edges, node, "in"), 1),
                       discovered |-> d]
             ELSE DfsNext(edges, rest, discovered)

\* The second loop of toposort: from each node of the candidate order, a DFS on
\* the reversed graph must yield at most that one node.
RECURSIVE CycleCheck(_, _, _, _)
CycleCheck(edges, order, k, discovered) ==
    IF k > Len(order) THEN FALSE
    ELSE LET r1 == DfsNext(edges, <<order[k]>>, discovered) IN
         IF r1.node = 0 THEN CycleCheck(edges, order, k + 1, r1.discovered)
         ELSE LET r2 == DfsNext(edges, r1.stack, r1.discovered) IN
              IF r2.node # 0 THEN TRUE
              ELSE CycleCheck(edges, order, k + 1, r2.discovered)

\* petgraph::algo::toposort(&graph, None). iterRev: whether the library walks
\* node_identifiers() back to front (the releases differ; the order among
\* unrelated nodes is the only thing it changes).
Toposort(n, edges, iterRev) ==
    LET ids == IF iterRev THEN [i \in 1..n |-> n + 1 - i] ELSE [i \in 1..n |-> i]
        st0 == [stack |-> <<>>, discovered |-> {}, finished |-> {},
                finish_stack |-> <<>>, cycle |-> FALSE]
        st  == FinishAll(edges, ids, 1, st0)
        ord == Reverse(st.finish_stack)
    IN  IF st.cycle THEN [ok |-> FALSE, order |-> <<>>]
        ELSE IF CycleCheck(edges, ord, 1, {}) THEN [ok |-> FALSE, order |-> <<>>]
        ELSE [ok |-> TRUE, order |-> ord]

\* DependencyGraph::add_dependency: the edge runs from the dependency to the
\* dependent.
DependencyEdgeSwapped(dependent, dependency) == <<dependent, dependency>>

DependencyEdge(dependent, dependency) == <<dependency, dependent>>

\* DependencyGraph::resolve_order with a cycle reported as an empty order.
ResolveOrderSwallowsCycle(nodes, edges, iterRev) ==
    LET t == Toposort(Len(nodes), edges, iterRev)
    IN  [kind |-> "Ok", order |-> [i \in 1..Len(t.order) |-> nodes[t.order[i]]]]

\* DependencyGraph::resolve_order.
ResolveOrder(nodes, edges, iterRev) ==
    LET t == Toposort(Len(nodes), edges, iterRev)
    IN  IF t.ok
        THEN [kind |-> "Ok", order |-> [i \in 1..Len(t.order) |-> nodes[t.order[i]]]]
        ELSE ConfigError(CyclicMessage)

\* ------------------------------------------------------- graph: operations
add_component ==
    /\ Len(g_nodes) < MaxNodes
    /\ g_nodes' = Append(g_nodes, NodeNames[Len(g_nodes) + 1])
    /\ g_result' = NoResult
    /\ UNCHANGED <<g_edges, g_deps>>
    /\ UNCHANGED <<restVars, storeVars, deployVars>>

add_dependency ==
    /\ Len(g_edges) < MaxEdges
    /\ \E dependent \in 1..Len(g_nodes), dependency \in 1..Len(g_nodes) :
           /\ g_edges' = Append(g_edges, DependencyEdge(dependent, dependency))
           /\ g_deps' = Append(g_deps, <<dependent, dependency>>)
    /\ g_result' = NoResult
    /\ UNCHANGED g_nodes
    /\ UNCHANGED <<restVars, storeVars, deployVars>>

resolve_order ==
    /\ g_result = NoResult
    /\ \E iterRev \in BOOLEAN : g_result' = ResolveOrder(g_nodes, g_edges, iterRev)
    /\ UNCHANGED <<g_nodes, g_edges, g_deps>>
    /\ UNCHANGED <<restVars, storeVars, deployVars>>

GraphStart ==
    /\ g_nodes = <<>>
    /\ g_edges = <<>>
    /\ g_deps = <<>>
    /\ g_result = NoResult

\* ------------------------------------------------------------- state store
\* Option<T>.
None == [is_some |-> FALSE]

Some(v) == [is_some |-> TRUE, some |-> v]

Ok(v) == [kind |-> "Ok", value |-> v]

IoError == [kind |-> "Err", error |-> "Io"]

SerializationError == [kind |-> "Err", error |-> "Serialization"]

\* What the file system and the JSON parser may do to one call.
IoOutcomes == {"ok", "read_fails", "parse_fails", "write_fails"}

\* The state file before anything has been saved.
NoFile == [exists |-> FALSE, containers |-> <<>>]

\* state::load_state: the default (empty) state when the file is absent.
load_state(file, io) ==
    IF ~file.exists THEN Ok(<<>>)
    ELSE IF io = "read_fails" THEN IoError
    ELSE IF io = "parse_fails" THEN SerializationError
    ELSE Ok(file.containers)

\* state::save_state: the file after the call, and what the call returns.
save_state(file, containers, io) ==
    IF io = "write_fails" THEN [file |-> file, ret |-> IoError]
    ELSE [file |-> [exists |-> TRUE, containers |-> containers], ret |-> Ok("unit")]

\* Index of the first entry with this id (0 when there is none):
\* `containers.iter().find(|e| e.id == *id)`.
FindEntry(containers, id) ==
    IF \E i \in 1..Len(containers) : containers[i].id = id
    THEN CHOOSE i \in 1..Len(containers) :
             /\ containers[i].id = id
             /\ \A j \in 1..(i - 1) : containers[j].id # id
    ELSE 0

\* `containers.retain(|e| e.id != *id)`.
RECURSIVE Retain(_, _)
Retain(containers, id) ==
    IF containers = <<>> THEN <<>>
    ELSE (IF Head(containers).id # id THEN <<Head(containers)>> ELSE <<>>)
             \o Retain(Tail(containers), id)

\* ------------------------------------------------------------ Linux backend
\* The configurations callers pass to create (name and image of a component).
Configs ==
    { [name |-> "api", image |-> "file:///opt/images/api"],
      [name |-> "db",  image |-> "file:///opt/images/postgres"] }

\* LinuxNativeBackend::create that saves the new entry alone.
LinuxCreateOverwrites(file, id, config, io) ==
    LET loaded == load_state(file, io) IN
    IF loaded.kind = "Err" THEN [file |-> file, ret |-> loaded]
    ELSE LET entry == [id |-> id, name |-> config.name, state |-> "Created",
                       pid |-> None, image |-> config.image,
                       rootfs_path |-> None, log_path |-> None]
             saved == save_state(file, <<entry>>, io)
         IN  IF saved.ret.kind = "Err" THEN saved
             ELSE [file |-> saved.file, ret |-> Ok(id)]

\* LinuxNativeBackend::create, for the id that ContainerId::generate returned.
LinuxCreate(file, id, config, io) ==
    LET loaded == load_state(file, io) IN
    IF loaded.kind = "Err" THEN [file |-> file, ret |-> loaded]
    ELSE LET entry == [id |-> id, name |-> config.name, state |-> "Created",
                       pid |-> None, image |-> config.image,
                       rootfs_path |-> None, log_path |-> None]
             saved == save_state(file, Append(loaded.value, entry), io)
         IN  IF saved.ret.kind = "Err" THEN saved
             ELSE [file |-> saved.file, ret |-> Ok(id)]

\* LinuxNativeBackend::start: reports PID 0 and touches nothing.
LinuxStart(file, id) == [file |-> file, ret |-> Ok(0)]

\* A stop that marks every entry, whatever its id.
LinuxStopAll(file, id, io) ==
    LET loaded == load_state(file, io) IN
    IF loaded.kind = "Err" THEN [file |-> file, ret |-> loaded]
    ELSE save_state(file,
                    [i \in 1..Len(loaded.value) |->
                        [loaded.value[i] EXCEPT !.state = "Stopped", !.pid = None]],
                    io)

\* LinuxNativeBackend::stop.
LinuxStop(file, id, io) ==
    LET loaded == load_state(file, io) IN
    IF loaded.kind = "Err" THEN [file |-> file, ret |-> loaded]
    ELSE LET i == FindEntry(loaded.value, id)
             after == IF i = 0 THEN loaded.value
                      ELSE [loaded.value EXCEPT ![i].state = "Stopped", ![i].pid = None]
         IN  save_state(file, after, io)

\* LinuxNativeBackend::remove.
LinuxRemove(file, id, io) ==
    LET loaded == load_state(file, io) IN
    IF loaded.kind = "Err" THEN [file |-> file, ret |-> loaded]
    ELSE save_state(file, Retain(loaded.value, id), io)

\* ---------------------------------------------------- backend: operations
MaxContainers == 2

\* The ids a caller may name: those create has returned so far, and 0, which
\* stands for an id that no create ever returned.
KnownIds == 1..nextId

Ids == {0} \cup KnownIds

Absent == [state |-> "absent"]

\* No Container has been constructed yet.
NoContainer == [state |-> "none"]

\* The entry with this id as the state file holds it (Absent when it holds none,
\* or when the file is missing).
EntryOf(file, id) ==
    IF FindEntry(file.containers, id) = 0 THEN Absent
    ELSE file.containers[FindEntry(file.containers, id)]

Call(op, id, ret, was) == [op |-> op, id |-> id, ret |-> ret, was |-> was]

\* The backend and a Container share no state: a caller is followed through the
\* one or through the other.
BackendUntouched == stateFile = NoFile /\ logFiles = {} /\ nextId = 0

\* Engine::deploy_component's backend.create, on the Linux backend.
create ==
    /\ container = NoContainer
    /\ nextId < MaxContainers
    /\ \E config \in Configs, io \in IoOutcomes :
           LET id == nextId + 1
               r  == LinuxCreate(stateFile, id, config, io)
           IN  /\ nextId' = id
               /\ stateFile' = r.file
               /\ last' = Call("create", id, r.ret, EntryOf(stateFile, id))
    /\ UNCHANGED <<logFiles, container>>
    /\ UNCHANGED <<restVars, graphVars, deployVars>>

start ==
    /\ container = NoContainer
    /\ \E id \in Ids :
           LET r == LinuxStart(stateFile, id)
           IN  /\ stateFile' = r.file
               /\ last' = Call("start", id, r.ret, EntryOf(stateFile, id))
    /\ UNCHANGED <<logFiles, nextId, container>>
    /\ UNCHANGED <<restVars, graphVars, deployVars>>

\* Engine::stop: delegates to the backend's stop.
stop ==
    /\ container = NoContainer
    /\ \E id \in Ids, io \in IoOutcomes :
           LET r == LinuxStop(stateFile, id, io)
           IN  /\ stateFile' = r.file
               /\ last' = Call("stop", id, r.ret, EntryOf(stateFile, id))
    /\ UNCHANGED <<logFiles, nextId, container>>
    /\ UNCHANGED <<restVars, graphVars, deployVars>>

remove ==
    /\ container = NoContainer
    /\ \E id \in Ids, io \in IoOutcomes :
           LET r == LinuxRemove(stateFile, id, io)
           IN  /\ stateFile' = r.file
               /\ last' = Call("remove", id, r.ret, EntryOf(stateFile, id))
    /\ UNCHANGED <<logFiles, nextId, container>>
    /\ UNCHANGED <<restVars, graphVars, deployVars>>

\* ---------------------------------------------------------------- log store
\* logs::append_log: creates the file when it is missing and appends a line,
\* or fails with an Io error before the file is there.
append_log ==
    /\ container = NoContainer
    /\ \E id \in KnownIds, io \in {"ok", "write_fails"} :
           /\ logFiles' = IF io = "ok" THEN logFiles \cup {id} ELSE logFiles
           /\ last' = Call("append_log", id, IF io = "ok" THEN Ok("unit") ELSE IoError,
                           EntryOf(stateFile, id))
    /\ UNCHANGED <<stateFile, nextId, container>>
    /\ UNCHANGED <<restVars, graphVars, deployVars>>

\* ------------------------------------------------------ Container (in memory)
\* What spawn_container_process may return for a non-empty command.
Pids == {101, 102}

Commands == {<<>>, <<"sh">>}

\* Container::new.
ContainerNew(id, command) ==
    [id |-> id, state |-> "Created", pid |-> None, rootfs_path |-> None,
     log_path |-> None, command |-> command]

\* Container::start; spawned is what process::spawn_container_process returned.
ContainerStart(c, rootfs, spawned) ==
    IF c.state = "Running"
    THEN [container |-> c, ret |-> ConfigError(<<"already", "running">>)]
    ELSE IF spawned.kind = "Err" THEN [container |-> c, ret |-> spawned]
    ELSE [container |-> [c EXCEPT !.pid = Some(spawned.value),
                                  !.rootfs_path = Some(rootfs),
                                  !.state = "Running"],
          ret |-> Ok("unit")]

\* process::spawn_container_process: an empty command is a Config error, a
\* failed spawn an Io error, otherwise the child's PID.
SpawnOutcomes(command) ==
    IF command = <<>> THEN {ConfigError(<<"container", "command", "is", "empty">>)}
    ELSE {IoError} \cup {Ok(p) : p \in Pids}

\* Container::stop with the state set to a wrong variant.
ContainerStopResets(c) ==
    [container |-> [c EXCEPT !.state = "Created", !.pid = None], ret |-> Ok("unit")]

\* Container::stop that forgets the PID.
ContainerStopKeepsPid(c) ==
    [container |-> [c EXCEPT !.state = "Stopped"], ret |-> Ok("unit")]

\* Container::stop (the signals it sends change no field).
ContainerStop(c) ==
    [container |-> [c EXCEPT !.state = "Stopped", !.pid = None], ret |-> Ok("unit")]

Container_new ==
    /\ BackendUntouched
    /\ container = NoContainer
    /\ \E command \in Commands :
           /\ container' = ContainerNew("test", command)
           /\ last' = Call("Container::new", "test", Ok("unit"), container)
    /\ UNCHANGED <<stateFile, logFiles, nextId>>
    /\ UNCHANGED <<restVars, graphVars, deployVars>>

Container_start ==
    /\ container # NoContainer
    /\ \E spawned \in SpawnOutcomes(container.command) :
           LET r == ContainerStart(container, "/rootfs", spawned)
           IN  /\ container' = r.container
               /\ last' = Call("Container::start", container.id, r.ret, container)
    /\ UNCHANGED <<stateFile, logFiles, nextId>>
    /\ UNCHANGED <<restVars, graphVars, deployVars>>

Container_stop ==
    /\ container # NoContainer
    /\ LET r == ContainerStop(container)
       IN  /\ container' = r.container
           /\ last' = Call("Container::stop", container.id, r.ret, container)
    /\ UNCHANGED <<stateFile, logFiles, nextId>>
    /\ UNCHANGED <<restVars, graphVars, deployVars>>

\* -------------------------------------------------------------- composition
MaxComponents == 3
MaxConnections == 2

NotFoundError == [kind |-> "Err", error |-> "NotFound"]

ComponentNames(file) == [i \in 1..Len(file.components) |-> file.components[i].name]

\* validator::check_duplicate_components.
HasDuplicate(file) ==
    \E i, j \in 1..Len(file.components) :
        i < j /\ file.components[i].name = file.components[j].name

\* validator::check_connection_references.
HasUndefinedEndpoint(file) ==
    LET names == {file.components[i].name : i \in 1..Len(file.components)}
    IN  \E k \in 1..Len(file.connections) :
            file.connections[k].from \notin names \/ file.connections[k].to \notin names

\* validator::check_image_required.
LacksImage(file) ==
    \E i \in 1..Len(file.components) :
        file.components[i].from_template = None /\ file.components[i].image = None

\* validator::validate without check_connection_references.
validateSkipsReferences(file) ==
    IF HasDuplicate(file) THEN ConfigError(<<"duplicate", "component", "name">>)
    ELSE IF LacksImage(file)
         THEN ConfigError(<<"no", "FROM", "template", "and", "no", "image", "property">>)
    ELSE Ok("unit")

\* validator::validate: the three checks in order, the first failure returned.
validate(file) ==
    IF HasDuplicate(file) THEN ConfigError(<<"duplicate", "component", "name">>)
    ELSE IF HasUndefinedEndpoint(file) THEN NotFoundError
    ELSE IF LacksImage(file)
         THEN ConfigError(<<"no", "FROM", "template", "and", "no", "image", "property">>)
    ELSE Ok("unit")

\* parser::parse_ctst on a syntactically well-formed file: the declarations it
\* holds, once validate accepts them.
parse_ctst(file) ==
    LET v == validate(file) IN IF v.kind = "Err" THEN v ELSE Ok(file)

\* node_map.get(name) in resolve_deploy_order: the index of the node added for
\* the name (a later insert replaces an earlier one), 0 for None.
NodeIndex(components, name) ==
    IF \E i \in 1..Len(components) : components[i].name = name
    THEN CHOOSE i \in 1..Len(components) :
             /\ components[i].name = name
             /\ \A j \in (i + 1)..Len(components) : components[j].name # name
    ELSE 0

\* The add_dependency calls of resolve_deploy_order, one per connection whose
\* two names are in node_map: add_dependency(from, to).
RECURSIVE DeployEdges(_, _)
DeployEdges(components, connections) ==
    IF connections = <<>> THEN <<>>
    ELSE LET conn == connections[Len(connections)]
             from == NodeIndex(components, conn.from)
             to   == NodeIndex(components, conn.to)
         IN  DeployEdges(components, Pop(connections))
                 \o (IF from # 0 /\ to # 0 THEN <<DependencyEdge(from, to)>> ELSE <<>>)

SwapEndpoints(connections) ==
    [k \in 1..Len(connections) |->
        [from |-> connections[k].to, to |-> connections[k].from]]

\* resolve_deploy_order calling add_dependency(to, from).
ResolveDeployOrderSwapped(file, iterRev) ==
    ResolveOrder(ComponentNames(file),
                 DeployEdges(file.components, SwapEndpoints(file.connections)), iterRev)

\* resolve_deploy_order without its loop over the connections.
ResolveDeployOrderUnordered(file, iterRev) ==
    ResolveOrder(ComponentNames(file), <<>>, iterRev)

\* engine::resolve_deploy_order.
ResolveDeployOrder(file, iterRev) ==
    ResolveOrder(ComponentNames(file),
                 DeployEdges(file.components, file.connections), iterRev)

\* ----------------------------------------------------------------- VM backend
\* What one call to the VM backend meets: the agent answers, or the VM or its
\* agent cannot be reached for the whole call (every attempt of send_rpc fails).
VmOutcomes == {"ok", "unreachable"}

\* VMBackend::create with the agent's h_create; stateFile stands for the
\* agent's container metadata.
VMCreate(store, id, config, out) ==
    IF out = "unreachable" THEN [file |-> store, ret |-> IoError]
    ELSE LET entry == [id |-> id, name |-> config.name, state |-> "Created",
                       pid |-> None, image |-> config.image,
                       rootfs_path |-> None, log_path |-> None]
         IN  [file |-> [exists |-> TRUE, containers |-> Append(store.containers, entry)],
              ret |-> Ok(id)]

\* VMBackend::start with the agent's h_start.
VMStart(store, id, out, pid) ==
    IF out = "unreachable" THEN [file |-> store, ret |-> IoError]
    ELSE LET i == FindEntry(store.containers, id) IN
         IF i = 0 THEN [file |-> store, ret |-> ConfigError(<<"VM", "agent", "error">>)]
         ELSE [file |-> [store EXCEPT !.containers[i].state = "Running",
                                      !.containers[i].pid = Some(pid)],
               ret |-> Ok(pid)]

\* ------------------------------------------------------------ Engine::deploy
Backends == {"linux", "vm"}

CreateOutcomes(backend) == IF backend = "linux" THEN IoOutcomes ELSE VmOutcomes

StartOutcomes(backend) == IF backend = "linux" THEN {"ok"} ELSE VmOutcomes

StartPids(backend) == IF backend = "linux" THEN {0} ELSE Pids

BackendCreate(backend, store, id, config, out) ==
    IF backend = "linux" THEN LinuxCreate(store, id, config, out)
    ELSE VMCreate(store, id, config, out)

BackendStart(backend, store, id, out, pid) ==
    IF backend = "linux" THEN LinuxStart(store, id)
    ELSE VMStart(store, id, out, pid)

\* project_dir(ctst_path), and the logs/ and state/ directories inside it.
ProjectDirs == {".containust", ".containust/logs", ".containust/state"}

\* What the file system does to deploy: everything works, the directories
\* cannot be created (the results of create_dir_all are dropped), or the
\* composition file cannot be read.
FsOutcomes == {"ok", "no_mkdir", "no_read"}

BackendCall(op, name, id, ret) == [op |-> op, name |-> name, id |-> id, ret |-> ret]

\* Engine::deploy up to its loop: directories, read, parse_ctst,
\* resolve_deploy_order, resolve_connections (which cannot fail).
deploy_prepare ==
    /\ d_pc = "ready"
    /\ \E fs \in FsOutcomes, iterRev \in BOOLEAN :
           LET parsed == parse_ctst(d_file)
               order  == ResolveDeployOrder(d_file, iterRev)
               failed == IF fs = "no_read" THEN IoError
                         ELSE IF parsed.kind = "Err" THEN parsed
                         ELSE IF order.kind = "Err" THEN order
                         ELSE Ok("unit")
           IN  /\ d_dirs' = IF fs = "no_mkdir" THEN d_dirs ELSE d_dirs \cup ProjectDirs
               /\ IF failed.kind = "Err"
                  THEN /\ d_ret' = failed
                       /\ d_pc' = "returned"
                       /\ d_order' = d_order
                  ELSE /\ d_ret' = d_ret
                       /\ d_pc' = "loop"
                       /\ d_order' = order.order
    /\ UNCHANGED <<d_backend, d_file, d_i, d_cur, d_deployed, d_trace>>
    /\ UNCHANGED <<restVars, graphVars, storeVars>>

\* Engine::deploy_component up to `self.backend.create(&config)?`.
deploy_create ==
    /\ d_pc = "loop"
    /\ d_i <= Len(d_order)
    /\ LET name == d_order[d_i]
           c    == NodeIndex(d_file.components, name)
       IN  IF c = 0
           THEN /\ d_i' = d_i + 1
                /\ UNCHANGED <<d_pc, d_cur, d_trace, d_ret, stateFile, nextId>>
           ELSE \E out \in CreateOutcomes(d_backend) :
                    LET comp   == d_file.components[c]
                        config == [name |-> comp.name,
                                   image |-> IF comp.image = None THEN ""
                                             ELSE comp.image.some]
                        id     == nextId + 1
                        r      == BackendCreate(d_backend, stateFile, id, config, out)
                    IN  /\ nextId' = id
                        /\ stateFile' = r.file
                        /\ d_trace' = Append(d_trace, BackendCall("create", name, id, r.ret))
                        /\ IF r.ret.kind = "Err"
                           THEN /\ d_ret' = r.ret
                                /\ d_pc' = "returned"
                                /\ d_cur' = d_cur
                           ELSE /\ d_ret' = d_ret
                                /\ d_pc' = "created"
                                /\ d_cur' = r.ret.value
                        /\ d_i' = d_i
    /\ UNCHANGED <<d_backend, d_file, d_order, d_deployed, d_dirs>>
    /\ UNCHANGED <<restVars, graphVars, logFiles, container, last>>

\* Engine::deploy_component from `self.backend.start(&id)?` on, and the push
\* in deploy's loop.
deploy_start ==
    /\ d_pc = "created"
    /\ \E out \in StartOutcomes(d_backend), pid \in StartPids(d_backend) :
           LET name == d_order[d_i]
               r    == BackendStart(d_backend, stateFile, d_cur, out, pid)
           IN  /\ stateFile' = r.file
               /\ d_trace' = Append(d_trace, BackendCall("start", name, d_cur, r.ret))
               /\ IF r.ret.kind = "Err"
                  THEN /\ d_ret' = r.ret
                       /\ d_pc' = "returned"
                       /\ UNCHANGED <<d_i, d_deployed>>
                  ELSE /\ d_ret' = d_ret
                       /\ d_pc' = "loop"
                       /\ d_i' = d_i + 1
                       /\ d_deployed' = Append(d_deployed,
                              [id |-> d_cur, name |-> name, pid |-> Some(r.ret.value)])
    /\ UNCHANGED <<d_backend, d_file, d_order, d_cur, d_dirs>>
    /\ UNCHANGED <<restVars, graphVars, logFiles, nextId, container, last>>

\* Engine::deploy: `Ok(deployed)` after the loop.
deploy_return ==
    /\ d_pc = "loop"
    /\ d_i > Len(d_order)
    /\ d_ret' = Ok(d_deployed)
    /\ d_pc' = "returned"
    /\ UNCHANGED <<d_backend, d_file, d_order, d_i, d_cur, d_deployed, d_trace, d_dirs>>
    /\ UNCHANGED <<restVars, graphVars, storeVars>>

\* The compositions deploy is given: up to MaxComponents components named in
\* order, all with an image ("plain"), or the last one repeating the first
\* name ("duplicate") or declaring neither image nor template ("no_image"), and
\* up to MaxConnections CONNECT lines over the names.
Variants == {"plain", "duplicate", "no_image"}

ComponentDecl(name, image) == [name |-> name, from_template |-> None, image |-> image]

Components(n, variant) ==
    [i \in 1..n |->
        IF i = n /\ n > 1 /\ variant = "duplicate"
        THEN ComponentDecl(NodeNames[1], Some("file:///opt/images/app"))
        ELSE IF i = n /\ variant = "no_image"
        THEN ComponentDecl(NodeNames[i], None)
        ELSE ComponentDecl(NodeNames[i], Some("file:///opt/images/app"))]

ConnectionDecls ==
    {[from |-> NodeNames[a], to |-> NodeNames[b]] : a, b \in 1..MaxComponents}

ConnectionLists == UNION {[1..k -> ConnectionDecls] : k \in 0..MaxConnections}

Compositions ==
    {[components |-> Components(n, variant), connections |-> conns] :
        n \in 0..MaxComponents, variant \in Variants, conns \in ConnectionLists}

NoComposition == [components |-> <<>>, connections |-> <<>>]

DeployVarsStart ==
    /\ d_order = <<>>
    /\ d_i = 1
    /\ d_cur = 0
    /\ d_deployed = <<>>
    /\ d_trace = <<>>
    /\ d_dirs = {}
    /\ d_ret = NoResult

\* An engine about to deploy a composition.
DeployStart ==
    /\ d_backend \in Backends
    /\ d_file \in Compositions
    /\ d_pc = "ready"
    /\ DeployVarsStart

\* An engine that is not asked to deploy.
DeployIdle ==
    /\ d_backend = "linux"
    /\ d_file = NoComposition
    /\ d_pc = "idle"
    /\ DeployVarsStart

\* ------------------------------------------------- Engine::stop_all, ctst run
\* impl Display for ContainerState.
DisplayState(state) ==
    CASE state = "Created" -> "created"
      [] state = "Running" -> "running"
      [] state = "Stopped" -> "stopped"
      [] state = "Failed"  -> "failed"

ContainerInfo(entry) ==
    [id |-> entry.id, name |-> entry.name, state |-> DisplayState(entry.state),
     pid |-> entry.pid]

\* LinuxNativeBackend::list.
LinuxList(file, io) ==
    LET loaded == load_state(file, io) IN
    IF loaded.kind = "Err" THEN loaded
    ELSE Ok([i \in 1..Len(loaded.value) |-> ContainerInfo(loaded.value[i])])

\* LinuxNativeBackend::exec: the entry must exist and hold a PID; then
\* exec::exec_in_container, which refuses an empty command.
LinuxExec(file, id, command, io) ==
    LET loaded == load_state(file, io) IN
    IF loaded.kind = "Err" THEN loaded
    ELSE LET i == FindEntry(loaded.value, id) IN
         IF i = 0 THEN [kind |-> "Err", error |-> "NotFound"]
         ELSE IF ~loaded.value[i].pid.is_some
         THEN ConfigError(<<"container", "is", "not", "running">>)
         ELSE IF command = <<>> THEN ConfigError(<<"exec", "command", "is", "empty">>)
         ELSE IF io = "read_fails" THEN IoError
         ELSE Ok("output")

\* LinuxNativeBackend::logs, that is logs::read_logs: the empty string when
\* the container has no log file.
LinuxLogs(logs, id, io) ==
    IF id \notin logs THEN Ok("")
    ELSE IF io = "read_fails" THEN IoError
    ELSE Ok("lines")

linux_exec ==
    /\ container = NoContainer
    /\ \E id \in Ids, command \in {<<>>, <<"sh">>}, io \in IoOutcomes :
           last' = Call("exec", id, LinuxExec(stateFile, id, command, io),
                        EntryOf(stateFile, id))
    /\ UNCHANGED <<stateFile, logFiles, nextId, container>>
    /\ UNCHANGED <<restVars, graphVars, deployVars>>

linux_logs ==
    /\ container = NoContainer
    /\ \E id \in Ids, io \in IoOutcomes :
           last' = Call("logs", id, LinuxLogs(logFiles, id, io), EntryOf(stateFile, id))
    /\ UNCHANGED <<stateFile, logFiles, nextId, container>>
    /\ UNCHANGED <<restVars, graphVars, deployVars>>

linux_list ==
    /\ container = NoContainer
    /\ \E io \in IoOutcomes :
           last' = Call("list", 0, LinuxList(stateFile, io), Absent)
    /\ UNCHANGED <<stateFile, logFiles, nextId, container>>
    /\ UNCHANGED <<restVars, graphVars, deployVars>>

\* VMBackend::list with the agent's h_list: nothing when no VM was started.
VMList(store, out) ==
    IF ~store.exists THEN Ok(<<>>)
    ELSE IF out = "unreachable" THEN IoError
    ELSE Ok([i \in 1..Len(store.containers) |-> ContainerInfo(store.containers[i])])

\* VMBackend::stop with the agent's h_stop.
VMStop(store, id, out) ==
    IF out = "unreachable" THEN [file |-> store, ret |-> IoError]
    ELSE LET i == FindEntry(store.containers, id) IN
         IF i = 0 THEN [file |-> store, ret |-> ConfigError(<<"VM", "agent", "error">>)]
         ELSE [file |-> [store EXCEPT !.containers[i].state = "Stopped",
                                      !.containers[i].pid = None],
               ret |-> Ok("unit")]

BackendList(backend, store, out) ==
    IF backend = "linux" THEN LinuxList(store, out) ELSE VMList(store, out)

BackendStop(backend, store, id, out) ==
    IF backend = "linux" THEN LinuxStop(store, id, out) ELSE VMStop(store, id, out)

\* stop_all's test on every listed container, with the test left out.
IsRunningAlways(info) == TRUE

\* stop_all's test on every listed container: `info.state == "running"`.
IsRunning(info) == info.state = "running"

\* commands::run::execute after deploy_and_report: a failed deploy ends the
\* command, a detached run returns, otherwise wait_for_shutdown installs the
\* Ctrl+C handler (which may fail) and enters its loop.
run_deployed ==
    /\ r_pc = "deploy"
    /\ d_pc = "returned"
    /\ IF d_ret.kind = "Err" \/ r_detach
       THEN r_pc' = "exited" /\ r_running' = r_running
       ELSE \E handler \in {"ok", "fails"} :
                IF handler = "ok"
                THEN r_pc' = "waiting" /\ r_running' = Some(TRUE)
                ELSE r_pc' = "exited" /\ r_running' = r_running
    /\ UNCHANGED <<r_detach, r_list, r_k, r_stops, r_ret>>
    /\ UNCHANGED <<baseVars, runRest>>

\* The Ctrl+C handler: `r.store(false, Ordering::SeqCst)`.
sigint ==
    /\ r_running = Some(TRUE)
    /\ r_running' = Some(FALSE)
    /\ UNCHANGED <<r_detach, r_pc, r_list, r_k, r_stops, r_ret>>
    /\ UNCHANGED <<baseVars, runRest>>

\* wait_for_shutdown: the loop reads `running` as false and leaves.
wait_observe ==
    /\ r_pc = "waiting"
    /\ r_running = Some(FALSE)
    /\ r_pc' = "listing"
    /\ UNCHANGED <<r_detach, r_running, r_list, r_k, r_stops, r_ret>>
    /\ UNCHANGED <<baseVars, runRest>>

\* A caller of the engine that calls stop_all after its deploy failed.
stop_all_call ==
    /\ r_pc = "deploy"
    /\ d_pc = "returned"
    /\ d_ret.kind = "Err"
    /\ r_pc' = "listing"
    /\ UNCHANGED <<r_detach, r_running, r_list, r_k, r_stops, r_ret>>
    /\ UNCHANGED <<baseVars, runRest>>

\* Engine::stop_all: `let containers = self.backend.list()?`.
stop_all_list ==
    /\ r_pc = "listing"
    /\ \E out \in CreateOutcomes(d_backend) :
           LET r == BackendList(d_backend, stateFile, out)
           IN  IF r.kind = "Err"
               THEN r_ret' = r /\ r_pc' = "exited" /\ r_list' = r_list
               ELSE r_ret' = r_ret /\ r_pc' = "stopping" /\ r_list' = r.value
    /\ r_k' = 1
    /\ UNCHANGED <<r_detach, r_running, r_stops>>
    /\ UNCHANGED <<baseVars, runRest>>

\* Engine::stop_all: one turn of the loop over `containers`.
stop_all_step ==
    /\ r_pc = "stopping"
    /\ r_k <= Len(r_list)
    /\ IF IsRunning(r_list[r_k])
       THEN \E out \in CreateOutcomes(d_backend) :
                LET r == BackendStop(d_backend, stateFile, r_list[r_k].id, out)
                IN  /\ stateFile' = r.file
                    /\ r_stops' = Append(r_stops, [id |-> r_list[r_k].id, ret |-> r.ret])
                    /\ IF r.ret.kind = "Err"
                       THEN r_ret' = r.ret /\ r_pc' = "exited" /\ r_k' = r_k
                       ELSE r_ret' = r_ret /\ r_pc' = r_pc /\ r_k' = r_k + 1
       ELSE /\ r_k' = r_k + 1
            /\ UNCHANGED <<stateFile, r_stops, r_ret, r_pc>>
    /\ UNCHANGED <<r_detach, r_running, r_list>>
    /\ UNCHANGED <<graphVars, deployVars, runRest, logFiles, nextId, container, last>>

\* Engine::stop_all: `Ok(())` after the loop.
stop_all_return ==
    /\ r_pc = "stopping"
    /\ r_k > Len(r_list)
    /\ r_ret' = Ok("unit")
    /\ r_pc' = "exited"
    /\ UNCHANGED <<r_detach, r_running, r_list, r_k, r_stops>>
    /\ UNCHANGED <<baseVars, runRest>>

\* The compositions ctst run is given: components without connections.
RunCompositions ==
    {[components |-> Components(n, "plain"), connections |-> <<>>] :
        n \in 0..MaxComponents}

RunVarsStart ==
    /\ r_running = None
    /\ r_list = <<>>
    /\ r_k = 1
    /\ r_stops = <<>>
    /\ r_ret = NoResult

\* ctst run about to deploy.
RunStart ==
    /\ r_detach \in BOOLEAN
    /\ r_pc = "deploy"
    /\ RunVarsStart

\* No ctst run.
RunIdle ==
    /\ r_detach = FALSE
    /\ r_pc = "idle"
    /\ RunVarsStart

\* ------------------------------------------------- VM backend: QEMU process
VM_PORT == 10809

\* The ports a container config may declare (None: no port).
PortOptions == {None, Some(8080), Some(5432), Some(VM_PORT)}

\* What booting the VM may meet: it boots and the agent answers, QEMU is not
\* installed or the assets cannot be fetched, the spawn fails, or the agent
\* does not answer within the boot timeout.
EnsureOutcomes == {"ok", "no_qemu", "spawn_fails", "not_ready"}

\* VMBackend::create: `ports_to_forward`.
PortsToForward(port) == IF port = None THEN <<>> ELSE <<port.some>>

\* spawn_qemu: the hostfwd rules of the user-mode NIC, host port = guest port.
HostFwd(ports) == {VM_PORT} \cup {ports[i] : i \in {j \in 1..Len(ports) : ports[j] # VM_PORT}}

\* VMBackend::ensure_vm_running.
EnsureVmRunning(process, forwarded, ports, out) ==
    IF process # None
    THEN [process |-> process, forwarded |-> forwarded, ret |-> Ok("unit")]
    ELSE IF out = "no_qemu"
    THEN [process |-> process, forwarded |-> forwarded, ret |-> NotFoundError]
    ELSE IF out = "spawn_fails"
    THEN [process |-> process, forwarded |-> forwarded, ret |-> IoError]
    ELSE [process |-> Some([hostfwd |-> HostFwd(ports)]),
          forwarded |-> forwarded \o ports,
          ret |-> IF out = "not_ready"
                  THEN ConfigError(<<"VM", "failed", "to", "become", "reachable">>)
                  ELSE Ok("unit")]

\* VMBackend::create: ensure_vm_running, then the create request to the agent.
vm_create ==
    /\ nextId < MaxContainers
    /\ \E config \in Configs, port \in PortOptions, out \in EnsureOutcomes, rpc \in VmOutcomes :
           LET vm == EnsureVmRunning(v_process, v_forwarded, PortsToForward(port), out)
               id == nextId + 1
               r  == IF vm.ret.kind = "Err" THEN [file |-> stateFile, ret |-> vm.ret]
                     ELSE VMCreate(stateFile, id, config, rpc)
           IN  /\ v_process' = vm.process
               /\ v_forwarded' = vm.forwarded
               /\ stateFile' = r.file
               /\ nextId' = id
               /\ v_creates' = Append(v_creates, [port |-> port, ret |-> r.ret])
    /\ UNCHANGED <<graphVars, deployVars, vmRest, logFiles, container, last>>

VmStart ==
    /\ v_process = None
    /\ v_forwarded = <<>>
    /\ v_creates = <<>>

\* ------------------------------------------------------------- guest agent
\* The id of a request line that carries no "id": the sed of the handlers
\* yields the empty string.
EmptyId == 0 - 1

\* The methods a request line may name ("" when it names none).
Methods ==
    {"ping", "create", "start", "stop", "exec", "logs", "list", "remove", "reboot", ""}

\* One line written to the connection: a JSON object with these keys.
ReplyLine(key, value) == [keys |-> {key}, value |-> value]

\* `[ -d "$SD/$id" ]`: with the empty id the path is $SD itself, which exists.
DirExists(store, id) ==
    id = EmptyId \/ (id \in 1..MaxContainers /\ store.meta[id] # "none")

\* `sed -i 's/"state":.../' "$SD/$id/meta.json"`: nothing without the file.
SetState(store, id, state) ==
    IF id \in 1..MaxContainers /\ store.meta[id] # "none"
    THEN [store EXCEPT !.meta[id] = state]
    ELSE store

NotFoundLine == <<ReplyLine("error", "not found")>>

\* h_create, with gen_id handing out the next id.
h_create(store) ==
    LET id == store.next + 1 IN
    [store |-> [store EXCEPT !.next = id, !.meta[id] = "created",
                             !.rootfs = @ \cup {id}],
     lines |-> <<ReplyLine("result", [id |-> id])>>]

\* h_start; pid is `$!`.
h_start(store, id, pid) ==
    IF ~DirExists(store, id) THEN [store |-> store, lines |-> NotFoundLine]
    ELSE [store |-> SetState([store EXCEPT !.logs = @ \cup {id}, !.pid = @ \cup {id}],
                             id, "running"),
          lines |-> <<ReplyLine("result", [pid |-> pid])>>]

\* h_stop.
h_stop(store, id) ==
    IF ~DirExists(store, id) THEN [store |-> store, lines |-> NotFoundLine]
    ELSE [store |-> SetState([store EXCEPT !.pid = @ \ {id}], id, "stopped"),
          lines |-> <<ReplyLine("result", "ok")>>]

\* h_exec.
h_exec(store, id) ==
    IF ~DirExists(store, id) THEN [store |-> store, lines |-> NotFoundLine]
    ELSE [store |-> store,
          lines |-> <<ReplyLine("result", [stdout |-> "o", stderr |-> "e", exit_code |-> 0])>>]

\* h_logs: the log with its newlines turned into spaces, or the empty string.
h_logs(store, id) ==
    [store |-> store,
     lines |-> <<ReplyLine("result", [logs |-> IF id \in store.logs THEN "text" ELSE ""])>>]

\* h_list.
h_list(store) ==
    [store |-> store,
     lines |-> <<ReplyLine("result",
                  [containers |-> {i \in 1..MaxContainers : store.meta[i] # "none"}])>>]

\* `rm -rf "$SD/$id" "$RD/$id" "$LD/$id.log"`: with the empty id the first two
\* paths are $SD and $RD themselves.
Purge(store, id) ==
    IF id = EmptyId
    THEN [store EXCEPT !.meta = [i \in 1..MaxContainers |-> "none"],
                       !.pid = {}, !.rootfs = {}]
    ELSE [store EXCEPT !.meta = [i \in 1..MaxContainers |->
                                    IF i = id THEN "none" ELSE store.meta[i]],
                       !.pid = @ \ {id}, !.rootfs = @ \ {id}, !.logs = @ \ {id}]

\* h_remove with the output of its h_stop left on the connection.
h_removeEchoesStop(store, id) ==
    LET stopped == h_stop(store, id) IN
    [store |-> Purge(stopped.store, id),
     lines |-> stopped.lines \o <<ReplyLine("result", "ok")>>]

\* h_remove: `h_stop "$1" >/dev/null 2>&1`, the rm, one reply.
h_remove(store, id) ==
    LET stopped == h_stop(store, id) IN
    [store |-> Purge(stopped.store, id),
     lines |-> <<ReplyLine("result", "ok")>>]

\* The `case "$m" in ... esac` of the handler.
Handle(store, method, id, pid) ==
    CASE method = "ping"   -> [store |-> store, lines |-> <<ReplyLine("result", "pong")>>]
      [] method = "create" -> h_create(store)
      [] method = "start"  -> h_start(store, id, pid)
      [] method = "stop"   -> h_stop(store, id)
      [] method = "exec"   -> h_exec(store, id)
      [] method = "logs"   -> h_logs(store, id)
      [] method = "list"   -> h_list(store)
      [] method = "remove" -> h_remove(store, id)
      [] OTHER             -> [store |-> store, lines |-> <<ReplyLine("error", "unknown")>>]

\* The ids a request line may carry: none, one that no create returned (the
\* one after the last), or one that create returned.
RequestIds == {EmptyId} \cup 1..MaxContainers

\* One connection to the agent: /tmp/handler.sh reads a line and answers.
agent_handle ==
    /\ \E method \in Methods, id \in RequestIds, pid \in Pids :
           /\ method = "create" => a_store.next < MaxContainers
           /\ LET r == Handle(a_store, method, id, pid)
              IN  /\ a_store' = r.store
                  /\ a_reply' = r.lines
                  /\ a_request' = [method |-> method, id |-> id,
                                   known |-> DirExists(a_store, id)]
    /\ UNCHANGED <<baseVars, agentRest>>

AgentStart ==
    /\ a_store = [next |-> 0, meta |-> [i \in 1..MaxContainers |-> "none"],
                  pid |-> {}, rootfs |-> {}, logs |-> {}]
    /\ a_request = [method |-> "none", id |-> EmptyId, known |-> FALSE]
    /\ a_reply = <<>>

\* -------------------------------------------------------------- auto-wiring
\* Strings are sequences of characters here, so that to_uppercase, to_string
\* and the key order of a BTreeMap are computed character by character.
Alphabet ==
    <<"0", "1", "2", "3", "4", "5", "6", "7", "8", "9",
      "A", "B", "C", "D", "E", "F", "G", "H", "I", "J", "K", "L", "M",
      "N", "O", "P", "Q", "R", "S", "T", "U", "V", "W", "X", "Y", "Z",
      "_",
      "a", "b", "c", "d", "e", "f", "g", "h", "i", "j", "k", "l", "m",
      "n", "o", "p", "q", "r", "s", "t", "u", "v", "w", "x", "y", "z">>

\* The rank of a character in byte order.
Rank(c) == CHOOSE i \in 1..Len(Alphabet) : Alphabet[i] = c

\* char::to_uppercase on these characters: a lower-case letter moves to its
\* upper-case letter, every other character stays.
UpperChar(c) ==
    IF Rank(c) >= Rank("a") THEN Alphabet[Rank(c) - Rank("a") + Rank("A")] ELSE c

\* str::to_uppercase that leaves the string as it is.
to_uppercaseKeepsCase(str) == str

\* str::to_uppercase.
to_uppercase(str) == [i \in 1..Len(str) |-> UpperChar(str[i])]

\* u16::to_string: the decimal digits, most significant first.
RECURSIVE to_string(_)
to_string(n) ==
    IF n < 10 THEN <<Alphabet[n + 1]>>
    ELSE to_string(n \div 10) \o <<Alphabet[(n % 10) + 1]>>

\* Ord for String: byte-wise lexicographic order.
RECURSIVE StrLess(_, _)
StrLess(a, b) ==
    IF b = <<>> THEN FALSE
    ELSE IF a = <<>> THEN TRUE
    ELSE IF Head(a) # Head(b) THEN Rank(Head(a)) < Rank(Head(b))
    ELSE StrLess(Tail(a), Tail(b))

\* BTreeMap::iter: the pairs in ascending key order.
BTreeIter(map) ==
    LET keys == DOMAIN map
        order == CHOOSE q \in [1..Cardinality(keys) -> keys] :
                     \A i, j \in 1..Cardinality(keys) : i < j => StrLess(q[i], q[j])
    IN  [i \in 1..Cardinality(keys) |-> <<order[i], map[order[i]]>>]

\* BTreeMap::insert, which is what Command::env does with a pair.
BTreeInsert(map, key, value) ==
    [k \in DOMAIN map \cup {key} |-> IF k = key THEN value ELSE map[k]]

\* Iterator::find on a name: the first index that matches, 0 for None.
FirstNamed(seq, name) ==
    IF \E i \in 1..Len(seq) : seq[i].name = name
    THEN CHOOSE i \in 1..Len(seq) :
             seq[i].name = name /\ \A j \in 1..(i - 1) : seq[j].name # name
    ELSE 0

\* resolver::inject_connection_env.
inject_connection_env(resolved, conn, target_comp) ==
    LET target_upper == to_uppercase(conn.to)
        port == IF target_comp.port = None THEN <<>> ELSE to_string(target_comp.port.some)
        source == FirstNamed(resolved, conn.from)
        host == <<target_upper \o <<"_", "H", "O", "S", "T">>, conn.to>>
        pair == <<target_upper \o <<"_", "P", "O", "R", "T">>, port>>
    IN  IF source = 0 THEN resolved
        ELSE [resolved EXCEPT ![source].env =
                 IF port # <<>> THEN @ \o <<host, pair>> ELSE @ \o <<host>>]

\* The `for conn in &file.connections` loop of resolve_connections.
RECURSIVE InjectAll(_, _, _)
InjectAll(resolved, file, k) ==
    IF k > Len(file.connections) THEN resolved
    ELSE LET conn == file.connections[k]
             target == FirstNamed(file.components, conn.to)
         IN  InjectAll(IF target # 0
                       THEN inject_connection_env(resolved, conn, file.components[target])
                       ELSE resolved,
                       file, k + 1)

\* resolver::resolve_connections.
resolve_connections(file) ==
    Ok(InjectAll([i \in 1..Len(file.components) |->
                     [name |-> file.components[i].name,
                      env |-> BTreeIter(file.components[i].env)]],
                 file, 1))

\* The environment spawn_container_process gives the child: env_clear, the
\* three fixed variables, then every pair of `env` in order.
RECURSIVE EnvAll(_, _, _)
EnvAll(map, env, k) ==
    IF k > Len(env) THEN map
    ELSE EnvAll(BTreeInsert(map, env[k][1], env[k][2]), env, k + 1)

ChildEnv(env) ==
    EnvAll(BTreeInsert(BTreeInsert(BTreeInsert(<<>>,
               <<"P", "A", "T", "H">>, <<"b", "i", "n">>),
               <<"H", "O", "M", "E">>, <<"r", "o", "o", "t">>),
               <<"T", "E", "R", "M">>, <<"x", "t", "e", "r", "m">>),
           env, 1)

\* The names, the declared environments and the ports of the compositions.
WireNames == << <<"a", "p", "i">>, <<"d", "b">>, <<"q", "1">> >>

DB_HOST == <<"D", "B", "_", "H", "O", "S", "T">>

DeclaredEnvs ==
    {<<>>, BTreeInsert(BTreeInsert(<<>>, <<"K", "E", "Y">>, <<"v">>), DB_HOST, <<"m", "y">>)}

\* The port a component may declare, by its place in the file.
WirePorts(i) == {None, Some(<<8080, 5432, 80>>[i])}

WiredDecl(name, env, port) ==
    [name |-> name, from_template |-> None, image |-> Some("file:///opt/images/app"),
     env |-> env, port |-> port]

WiredConnections ==
    UNION {[1..k -> {[from |-> WireNames[a], to |-> WireNames[b]] :
                        a, b \in 1..Len(WireNames)}] : k \in 0..MaxConnections}

WiredCompositions ==
    {[components |-> [i \in 1..n |-> WiredDecl(WireNames[i], envs[i], ports[i])],
      connections |-> conns] :
        n \in 1..Len(WireNames),
        envs \in [1..Len(WireNames) -> DeclaredEnvs],
        ports \in {p \in [1..Len(WireNames) -> {None, Some(8080), Some(5432), Some(80)}] :
                      \A i \in 1..Len(WireNames) : p[i] \in WirePorts(i)},
        conns \in WiredConnections}

NoProcess == [component |-> 0, env |-> <<>>]

\* resolve_connections(&composition) as Engine::deploy calls it.
wire_resolve ==
    /\ w_resolved = NoResult
    /\ w_resolved' = resolve_connections(w_file)
    /\ UNCHANGED <<w_file, w_process>>
    /\ UNCHANGED <<baseVars, wireRest>>

\* spawn_container_process with the environment resolved for one component.
wire_spawn ==
    /\ w_resolved # NoResult
    /\ \E i \in 1..Len(w_resolved.value) :
           w_process' = [component |-> i, env |-> ChildEnv(w_resolved.value[i].env)]
    /\ UNCHANGED <<w_file, w_resolved>>
    /\ UNCHANGED <<baseVars, wireRest>>

WireVarsStart ==
    /\ w_resolved = NoResult
    /\ w_process = NoProcess

WireStart ==
    /\ w_file \in WiredCompositions
    /\ WireVarsStart

WireIdle ==
    /\ w_file = NoComposition
    /\ WireVarsStart

\* ---------------------------------------------------------------- validator
\* The compositions handed to validate: any names, repeated or not, with or
\* without a FROM template and an image, and connections between any names.
CheckNames == {"api", "db"}

CheckedDecls ==
    {[name |-> name, from_template |-> template, image |-> image] :
        name \in CheckNames,
        template \in {None, Some("base")},
        image \in {None, Some("file:///opt/images/app")}}

CheckedConnections ==
    UNION {[1..k -> {[from |-> a, to |-> b] : a, b \in CheckNames}] :
              k \in 0..MaxConnections}

CheckedCompositions ==
    {[components |-> comps, connections |-> conns] :
        comps \in UNION {[1..n -> CheckedDecls] : n \in 0..(Cardinality(CheckNames) + 1)},
        conns \in CheckedConnections}

\* validate(&file).
validate_call ==
    /\ c_ret = NoResult
    /\ c_ret' = validate(c_file)
    /\ UNCHANGED c_file
    /\ UNCHANGED <<baseVars, checkRest>>

CheckStart ==
    /\ c_file \in CheckedCompositions
    /\ c_ret = NoResult

CheckIdle ==
    /\ c_file = NoComposition
    /\ c_ret = NoResult

\* ------------------------------------------------------ state file as JSON
MaxEntries == 2

\* JSON values: what serde_json writes and reads (white space left out).
JNull == [json |-> "null"]

JString(str) == [json |-> "string", str |-> str]

JNumber(num) == [json |-> "number", num |-> num]

JArray(items) == [json |-> "array", items |-> items]

JObject(members) == [json |-> "object", members |-> members]

\* Serialize for Option<u32> and Option<String>.
SerializeOptionNumber(opt) == IF opt = None THEN JNull ELSE JNumber(opt.some)

SerializeOptionString(opt) == IF opt = None THEN JNull ELSE JString(opt.some)

\* ContainerState written the way its Display prints it.
SerializeStateDisplay(state) ==
    JString(CASE state = "Created" -> "created" [] state = "Running" -> "running"
              [] state = "Stopped" -> "stopped" [] state = "Failed" -> "failed")

\* Serialize for ContainerState, as derived: the name of the variant.
SerializeState(state) == JString(state)

\* Serialize for StateEntry, as derived: the fields in declaration order.
SerializeEntry(entry) ==
    JObject(<< <<"id", JString(entry.id)>>,
               <<"name", JString(entry.name)>>,
               <<"state", SerializeState(entry.state)>>,
               <<"pid", SerializeOptionNumber(entry.pid)>>,
               <<"image", JString(entry.image)>>,
               <<"rootfs_path", SerializeOptionString(entry.rootfs_path)>>,
               <<"log_path", SerializeOptionString(entry.log_path)>>,
               <<"created_at", JString(entry.created_at)>> >>)

\* serde_json::to_string_pretty(&StateFile).
to_string_pretty(state) ==
    JObject(<< <<"containers",
                 JArray([i \in 1..Len(state.containers) |->
                            SerializeEntry(state.containers[i])])>> >>)

\* The members of an object that carry this key.
Members(object, key) ==
    {i \in 1..Len(object.members) : object.members[i][1] = key}

\* The value of a key that occurs once.
Member(object, key) ==
    object.members[CHOOSE i \in Members(object, key) : TRUE][2]

\* Deserialize for a String field: present once, a string.
IsStringField(object, key) ==
    /\ Cardinality(Members(object, key)) = 1
    /\ Member(object, key).json = "string"

\* Deserialize for an Option field: absent or null is None. A number is a u32
\* when it is not negative (the numbers of the model stay below 2^31).
IsOptionField(object, key, kind) ==
    /\ Cardinality(Members(object, key)) <= 1
    /\ Cardinality(Members(object, key)) = 1 =>
           \/ Member(object, key).json = "null"
           \/ /\ Member(object, key).json = kind
              /\ kind = "number" => Member(object, key).num >= 0

DeserializeOption(object, key) ==
    IF Members(object, key) = {} \/ Member(object, key).json = "null" THEN None
    ELSE IF Member(object, key).json = "number" THEN Some(Member(object, key).num)
    ELSE Some(Member(object, key).str)

\* Deserialize for StateEntry, as derived, accepts this value.
IsEntry(value) ==
    /\ value.json = "object"
    /\ \A key \in {"id", "name", "image", "created_at"} : IsStringField(value, key)
    /\ IsStringField(value, "state")
    /\ Member(value, "state").str \in {"Created", "Running", "Stopped", "Failed"}
    /\ IsOptionField(value, "pid", "number")
    /\ IsOptionField(value, "rootfs_path", "string")
    /\ IsOptionField(value, "log_path", "string")

DeserializeEntry(value) ==
    [id |-> Member(value, "id").str,
     name |-> Member(value, "name").str,
     state |-> Member(value, "state").str,
     pid |-> DeserializeOption(value, "pid"),
     image |-> Member(value, "image").str,
     rootfs_path |-> DeserializeOption(value, "rootfs_path"),
     log_path |-> DeserializeOption(value, "log_path"),
     created_at |-> Member(value, "created_at").str]

\* serde_json::from_str::<StateFile>.
from_str(content) ==
    IF /\ content.json = "object"
       /\ Cardinality(Members(content, "containers")) = 1
       /\ Member(content, "containers").json = "array"
       /\ \A i \in 1..Len(Member(content, "containers").items) :
              IsEntry(Member(content, "containers").items[i])
    THEN Ok([containers |->
                [i \in 1..Len(Member(content, "containers").items) |->
                    DeserializeEntry(Member(content, "containers").items[i])]])
    ELSE SerializationError

AbsentFile == [exists |-> FALSE]

\* StateFile::default().
EmptyState == [containers |-> <<>>]

\* state::load_state on the text of the file.
load_state_text(disk, io) ==
    IF ~disk.exists THEN Ok(EmptyState)
    ELSE IF io = "read_fails" THEN IoError
    ELSE from_str(disk.content)

\* state::save_state on the text of the file.
save_state_text(disk, state, io) ==
    IF io = "write_fails" THEN [disk |-> disk, ret |-> IoError]
    ELSE [disk |-> [exists |-> TRUE, content |-> to_string_pretty(state)],
          ret |-> Ok("unit")]

\* The well-formed state files the caller may hold.
StateEntries ==
    {[id |-> "c1", name |-> "api", state |-> state, pid |-> pid,
      image |-> "file:///opt/images/api", rootfs_path |-> rootfs, log_path |-> log,
      created_at |-> "2026-01-01T00:00:00Z"] :
        state \in {"Created", "Running", "Stopped", "Failed"},
        pid \in {None, Some(2147483647)},
        rootfs \in {None, Some("/var/lib/containust/rootfs/c1")},
        log \in {None, Some("/var/lib/containust/logs/c1.log")}}

StateFiles ==
    {[containers |-> entries] :
        entries \in UNION {[1..n -> StateEntries] : n \in 0..MaxEntries}}

\* load_state(path).
json_load ==
    /\ j_pc \in {"start", "saved"}
    /\ \E io \in {"ok", "read_fails"} :
           LET r == load_state_text(j_disk, io)
           IN  /\ j_loaded' = r
               /\ j_pc' = IF j_pc = "saved" /\ io = "ok" THEN "loaded" ELSE j_pc
    /\ UNCHANGED <<j_state, j_disk, j_before>>
    /\ UNCHANGED <<baseVars, jsonRest>>

\* save_state(path, &state) with the state the caller holds.
json_save ==
    /\ j_pc = "start"
    /\ \E io \in {"ok", "write_fails"} :
           LET r == save_state_text(j_disk, j_state, io)
           IN  /\ j_disk' = r.disk
               /\ j_pc' = IF r.ret.kind = "Ok" THEN "saved" ELSE j_pc
    /\ j_loaded' = NoResult
    /\ UNCHANGED <<j_state, j_before>>
    /\ UNCHANGED <<baseVars, jsonRest>>

\* save_state(path, &loaded) with the state that load_state returned.
json_save_loaded ==
    /\ j_pc = "loaded"
    /\ j_loaded.kind = "Ok"
    /\ \E io \in {"ok", "write_fails"} :
           LET r == save_state_text(j_disk, j_loaded.value, io)
           IN  /\ j_disk' = r.disk
               /\ j_pc' = IF r.ret.kind = "Ok" THEN "resaved" ELSE j_pc
    /\ j_before' = j_disk
    /\ UNCHANGED <<j_state, j_loaded>>
    /\ UNCHANGED <<baseVars, jsonRest>>

JsonVarsStart ==
    /\ j_disk = AbsentFile
    /\ j_pc = "start"
    /\ j_loaded = NoResult
    /\ j_before = AbsentFile

JsonStart ==
    /\ j_state \in StateFiles
    /\ JsonVarsStart

JsonIdle ==
    /\ j_state = EmptyState
    /\ JsonVarsStart

\* ------------------------------------------------------------ image catalog
MaxImages == 3

\* Serialize for ImageEntry, as derived.
SerializeImage(entry) ==
    JObject(<< <<"id", JString(entry.id)>>,
               <<"name", JString(entry.name)>>,
               <<"source", JString(entry.source)>>,
               <<"layers", JArray([i \in 1..Len(entry.layers) |-> JString(entry.layers[i])])>>,
               <<"size_bytes", JNumber(entry.size_bytes)>>,
               <<"created_at", JString(entry.created_at)>> >>)

\* Deserialize for ImageEntry, as derived, accepts this value.
IsImage(value) ==
    /\ value.json = "object"
    /\ \A key \in {"id", "name", "source", "created_at"} : IsStringField(value, key)
    /\ Cardinality(Members(value, "layers")) = 1
    /\ Member(value, "layers").json = "array"
    /\ \A i \in 1..Len(Member(value, "layers").items) :
           Member(value, "layers").items[i].json = "string"
    /\ Cardinality(Members(value, "size_bytes")) = 1
    /\ Member(value, "size_bytes").json = "number"
    /\ Member(value, "size_bytes").num >= 0

DeserializeImage(value) ==
    [id |-> Member(value, "id").str,
     name |-> Member(value, "name").str,
     source |-> Member(value, "source").str,
     layers |-> [i \in 1..Len(Member(value, "layers").items) |->
                    Member(value, "layers").items[i].str],
     size_bytes |-> Member(value, "size_bytes").num,
     created_at |-> Member(value, "created_at").str]

\* ImageCatalog::list.
CatalogList(file, io) ==
    IF ~file.exists THEN Ok(<<>>)
    ELSE IF io = "read_fails" THEN IoError
    ELSE IF /\ file.content.json = "array"
            /\ \A i \in 1..Len(file.content.items) : IsImage(file.content.items[i])
    THEN Ok([i \in 1..Len(file.content.items) |-> DeserializeImage(file.content.items[i])])
    ELSE SerializationError

\* ImageCatalog::write_entries.
WriteEntries(file, entries, io) ==
    IF io = "write_fails" THEN [file |-> file, ret |-> IoError]
    ELSE [file |-> [exists |-> TRUE,
                    content |-> JArray([i \in 1..Len(entries) |-> SerializeImage(entries[i])])],
          ret |-> Ok("unit")]

\* ImageCatalog::register.
CatalogRegister(file, entry, io) ==
    LET listed == CatalogList(file, io) IN
    IF listed.kind = "Err" THEN [file |-> file, ret |-> listed]
    ELSE WriteEntries(file, Append(listed.value, entry), io)

\* `entries.retain(..)` that drops the first match only.
RECURSIVE RetainAfterFirst(_, _)
RetainAfterFirst(entries, id) ==
    IF entries = <<>> THEN <<>>
    ELSE IF Head(entries).id = id THEN Tail(entries)
    ELSE <<Head(entries)>> \o RetainAfterFirst(Tail(entries), id)

\* `entries.retain(|e| e.id.as_str() != id.as_str())`.
RetainOthers(entries, id) == Retain(entries, id)

\* ImageCatalog::remove.
CatalogRemove(file, id, io) ==
    LET listed == CatalogList(file, io) IN
    IF listed.kind = "Err" THEN [file |-> file, ret |-> listed]
    ELSE LET entries == RetainOthers(listed.value, id)
         IN  IF Len(entries) = Len(listed.value)
             THEN [file |-> file, ret |-> NotFoundError]
             ELSE WriteEntries(file, entries, io)

ImageIds == {"img-1", "img-2"}

ImageEntries ==
    {[id |-> id, name |-> name, source |-> "file:///opt/images/app",
      layers |-> <<"abc123">>, size_bytes |-> 1024, created_at |-> "2026-01-01T00:00:00Z"] :
        id \in ImageIds, name \in {"alpine", "busybox"}}

CatalogIo == {"ok", "read_fails", "write_fails"}

\* What list gives when the file can be read.
Listed(file) == CatalogList(file, "ok").value

CatalogCall(op, arg, io, ret, before) ==
    [op |-> op, arg |-> arg, io |-> io, ret |-> ret, before |-> before]

catalog_register ==
    /\ Len(Listed(k_file)) < MaxImages
    /\ \E entry \in ImageEntries, io \in CatalogIo :
           LET r == CatalogRegister(k_file, entry, io)
           IN  /\ k_file' = r.file
               /\ k_last' = CatalogCall("register", entry, io, r.ret, Listed(k_file))
    /\ UNCHANGED <<baseVars, catalogRest>>

catalog_remove ==
    /\ \E id \in ImageIds, io \in CatalogIo :
           LET r == CatalogRemove(k_file, id, io)
           IN  /\ k_file' = r.file
               /\ k_last' = CatalogCall("remove", id, io, r.ret, Listed(k_file))
    /\ UNCHANGED <<baseVars, catalogRest>>

catalog_list ==
    /\ \E io \in CatalogIo :
           k_last' = CatalogCall("list", "", io, CatalogList(k_file, io), Listed(k_file))
    /\ UNCHANGED k_file
    /\ UNCHANGED <<baseVars, catalogRest>>

\* ImageCatalog::open on an empty data directory.
CatalogStart ==
    /\ k_file = AbsentFile
    /\ k_last = CatalogCall("open", "", "ok", Ok("unit"), <<>>)

\* ------------------------------------------------------------ parse_memory
\* A u64 is kept as its eight bytes, least significant first, so that its
\* width is exact; a number that needs more bytes has more limbs.
LimbBase == 256

U64Limbs == 8

\* Carries taken through a sequence of column sums.
RECURSIVE Propagate(_, _)
Propagate(cols, carry) ==
    IF cols = <<>>
    THEN IF carry = 0 THEN <<>>
         ELSE <<carry % LimbBase>> \o Propagate(<<>>, carry \div LimbBase)
    ELSE LET t == Head(cols) + carry
         IN  <<t % LimbBase>> \o Propagate(Tail(cols), t \div LimbBase)

Limb(x, i) == IF i <= Len(x) THEN x[i] ELSE 0

\* The limbs of a small number.
FromInt(k) == Propagate(<<k>>, 0)

RECURSIVE ColumnSum(_, _, _, _)
ColumnSum(a, b, k, i) ==
    IF i > Len(a) THEN 0
    ELSE (IF k - i + 1 \in 1..Len(b) THEN a[i] * b[k - i + 1] ELSE 0)
             + ColumnSum(a, b, k, i + 1)

\* The product of two numbers, every limb of it.
Product(a, b) ==
    IF a = <<>> \/ b = <<>> THEN <<>>
    ELSE Propagate([k \in 1..(Len(a) + Len(b) - 1) |-> ColumnSum(a, b, k, 1)], 0)

Sum(a, d) == Propagate([i \in 1..(IF a = <<>> THEN 1 ELSE Len(a)) |->
                            Limb(a, i) + (IF i = 1 THEN d ELSE 0)], 0)

\* The number fits a u64.
FitsU64(x) == \A i \in 1..Len(x) : i > U64Limbs => x[i] = 0

\* The number as a u64: its low 64 bits.
AsU64(x) == [i \in 1..U64Limbs |-> Limb(x, i)]

\* Two limb sequences are the same number.
SameNumber(x, y) ==
    \A i \in 1..(IF Len(x) > Len(y) THEN Len(x) ELSE Len(y)) : Limb(x, i) = Limb(y, i)

Digits == {"0", "1", "2", "3", "4", "5", "6", "7", "8", "9"}

\* The checked `result * 10 + digit` loop of u64::from_str; None on a
\* character that is no digit and on overflow.
RECURSIVE ParseDigits(_, _)
ParseDigits(str, acc) ==
    IF str = <<>> THEN Some(AsU64(acc))
    ELSE IF Head(str) \notin Digits THEN None
    ELSE LET next == Sum(Product(acc, FromInt(10)), Rank(Head(str)) - 1)
         IN  IF FitsU64(next) THEN ParseDigits(Tail(str), next) ELSE None

\* str::parse::<u64>().ok(): one optional "+", then at least one digit.
parse_u64(str) ==
    LET digits == IF str # <<>> /\ Head(str) = "+" THEN Tail(str) ELSE str
    IN  IF digits = <<>> THEN None ELSE ParseDigits(digits, <<>>)

\* str::trim.
RECURSIVE trim_start(_)
trim_start(str) ==
    IF str # <<>> /\ Head(str) = " " THEN trim_start(Tail(str)) ELSE str

RECURSIVE trim_end(_)
trim_end(str) ==
    IF str # <<>> /\ str[Len(str)] = " " THEN trim_end(SubSeq(str, 1, Len(str) - 1)) ELSE str

trim(str) == trim_end(trim_start(str))

\* str::strip_suffix.
strip_suffix(str, suffix) ==
    IF Len(str) >= Len(suffix) /\ SubSeq(str, Len(str) - Len(suffix) + 1, Len(str)) = suffix
    THEN Some(SubSeq(str, 1, Len(str) - Len(suffix)))
    ELSE None

\* The if/else chain of parse_memory: the number part and the multiplier.
SplitSuffix(s) ==
    IF strip_suffix(s, <<"G", "i", "B">>) # None
    THEN <<strip_suffix(s, <<"G", "i", "B">>).some, 1024 * 1024 * 1024>>
    ELSE IF strip_suffix(s, <<"G", "B">>) # None
    THEN <<strip_suffix(s, <<"G", "B">>).some, 1000000000>>
    ELSE IF strip_suffix(s, <<"M", "i", "B">>) # None
    THEN <<strip_suffix(s, <<"M", "i", "B">>).some, 1024 * 1024>>
    ELSE IF strip_suffix(s, <<"M", "B">>) # None
    THEN <<strip_suffix(s, <<"M", "B">>).some, 1000000>>
    ELSE IF strip_suffix(s, <<"K", "i", "B">>) # None
    THEN <<strip_suffix(s, <<"K", "i", "B">>).some, 1024>>
    ELSE IF strip_suffix(s, <<"K", "B">>) # None
    THEN <<strip_suffix(s, <<"K", "B">>).some, 1000>>
    ELSE <<s, 1>>

\* How `n * multiplier` on u64 ends when the product does not fit: a panic
\* with overflow checks (debug builds), the low 64 bits without (release).
Builds == {"debug", "release"}

Returns(value) == [outcome |-> "returns", value |-> value]

Panics == [outcome |-> "panics"]

\* engine::parse_memory.
parse_memory(str, build) ==
    LET split == SplitSuffix(trim(str))
        n == parse_u64(trim(split[1]))
    IN  IF n = None THEN Returns(None)
        ELSE LET product == Product(n.some, FromInt(split[2]))
             IN  IF ~FitsU64(product) /\ build = "debug" THEN Panics
                 ELSE Returns(Some(AsU64(product)))

\* The strings handed to parse_memory: a number part, a suffix, and blanks
\* around and between them or not.
NumberParts ==
    {<<"0">>,
     <<"1">>,
     <<"1", "2", "8">>,
     <<"1", "0", "4", "8", "5", "7", "6">>,
     <<"1", "7", "1", "7", "9", "8", "6", "9", "1", "8", "4">>,
     <<"1", "8", "4", "4", "6", "7", "4", "4", "0", "7", "3", "7", "0", "9", "5", "5", "1", "6", "1", "5">>,
     <<"1", "8", "4", "4", "6", "7", "4", "4", "0", "7", "3", "7", "0", "9", "5", "5", "1", "6", "1", "6">>,
     <<"a", "b", "c">>,
     <<>>,
     <<"+", "5">>,
     <<"-", "1">>,
     <<"1", "2", "a">>}

SuffixParts == {<<>>, <<"K", "B">>, <<"K", "i", "B">>, <<"M", "B">>, <<"M", "i", "B">>, <<"G", "B">>, <<"G", "i", "B">>, <<"T", "B">>}

MemoryInputs ==
    {[number |-> number, suffix |-> suffix,
      text |-> IF blanks THEN <<" ">> \o number \o <<" ">> \o suffix \o <<" ">>
               ELSE number \o suffix] :
        number \in NumberParts, suffix \in SuffixParts, blanks \in BOOLEAN}

\* comp.memory.as_deref().and_then(parse_memory).
memory_parse ==
    /\ m_ret = NoResult
    /\ \E build \in Builds : m_ret' = parse_memory(m_input.text, build)
    /\ UNCHANGED m_input
    /\ UNCHANGED <<baseVars, memoryRest>>

MemoryStart ==
    /\ m_input \in MemoryInputs
    /\ m_ret = NoResult

MemoryIdle ==
    /\ m_input = [number |-> <<>>, suffix |-> <<>>, text |-> <<>>]
    /\ m_ret = NoResult

\* ------------------------------------------- VMBackend, thread by thread
\* The threads that share one VMBackend.
Threads == {1, 2}

\* How many QEMU processes the model lets one backend spawn.
MaxSpawns == 2

\* The ports argument of ensure_vm_running: one published port.
ThreadPorts == {<<8080>>}

\* The steps of ensure_vm_running and stop_vm that block on the outside
\* world: locating and fetching the VM assets and building the initramfs,
\* spawning QEMU, polling the agent, killing and reaping the child.
BlockingSteps ==
    {"ensure_vm_assets", "spawn_qemu", "wait_for_vm_ready", "kill", "wait"}

Qemu(ready, killed, waited, ponged) ==
    [ready |-> ready, killed |-> killed, waited |-> waited, ponged |-> ponged]

\* Child::kill and Child::wait on the child c.
Kill(qemu, c) == [qemu EXCEPT ![c].killed = TRUE]

WaitSkipped(qemu, c) == qemu

Wait(qemu, c) == [qemu EXCEPT ![c].waited = TRUE]

\* check_agent_ping answers "pong" when a QEMU process is alive and its
\* agent listens on VM_PORT.
Listening(qemu) == {c \in 1..Len(qemu) : qemu[c].ready /\ ~qemu[c].killed}

\* Whether the agent behind the handle has answered a ping yet.
Answered(process, qemu) == process.is_some /\ qemu[process.some].ponged

Returned(fn, result, answered, took) ==
    [fn |-> fn, result |-> result, answered |-> answered, took |-> took]

ThreadIdle == \A t \in Threads : t_pc[t] = "idle"

\* A caller enters ensure_vm_running (through create).
call_ensure_vm_running(t) ==
    /\ t_drop = "live"
    /\ t_pc[t] = "idle"
    /\ t_pc' = [t_pc EXCEPT ![t] = "ensure_lock"]
    /\ UNCHANGED <<t_owner, t_child, t_qemu, t_local, t_forwarded, t_ret, t_drop>>
    /\ UNCHANGED <<baseVars, threadRest>>

\* let mut guard = lock_vm_process(&self.vm_process)?;
ensure_lock(t) ==
    /\ t_pc[t] = "ensure_lock"
    /\ t_owner = 0
    /\ t_owner' = t
    /\ t_pc' = [t_pc EXCEPT ![t] = "ensure_check"]
    /\ UNCHANGED <<t_child, t_qemu, t_local, t_forwarded, t_ret, t_drop>>
    /\ UNCHANGED <<baseVars, threadRest>>

\* if guard.is_some() { return Ok(()); }
ensure_check(t) ==
    /\ t_pc[t] = "ensure_check"
    /\ IF t_child.is_some
       THEN /\ t_owner' = 0
            /\ t_pc' = [t_pc EXCEPT ![t] = "idle"]
            /\ t_ret' = [t_ret EXCEPT ![t] =
                   Returned("ensure_vm_running", "Ok", Answered(t_child, t_qemu), 0)]
       ELSE /\ t_pc' = [t_pc EXCEPT ![t] = "find_qemu"]
            /\ UNCHANGED <<t_owner, t_ret>>
    /\ UNCHANGED <<t_child, t_qemu, t_local, t_forwarded, t_drop>>
    /\ UNCHANGED <<baseVars, threadRest>>

\* A step of ensure_vm_running that fails: `?` returns the error and the
\* guard, still in scope, is dropped.
EnsureFails(t, error) ==
    /\ t_owner' = 0
    /\ t_pc' = [t_pc EXCEPT ![t] = "idle"]
    /\ t_ret' = [t_ret EXCEPT ![t] = Returned("ensure_vm_running", error, FALSE, 0)]
    /\ UNCHANGED <<t_child, t_qemu>>

\* let qemu = find_qemu()?;
ensure_find_qemu(t) ==
    /\ t_pc[t] = "find_qemu"
    /\ \E found \in BOOLEAN :
         IF found
         THEN /\ t_pc' = [t_pc EXCEPT ![t] = "ensure_vm_assets"]
              /\ UNCHANGED <<t_owner, t_ret, t_child, t_qemu>>
         ELSE EnsureFails(t, "NotFound")
    /\ UNCHANGED <<t_local, t_forwarded, t_drop>>
    /\ UNCHANGED <<baseVars, threadRest>>

\* let (kernel, initramfs) = self.ensure_vm_assets()?;
ensure_assets(t) ==
    /\ t_pc[t] = "ensure_vm_assets"
    /\ \E fetched \in BOOLEAN :
         IF fetched
         THEN /\ t_pc' = [t_pc EXCEPT ![t] = "spawn_qemu"]
              /\ UNCHANGED <<t_owner, t_ret, t_child, t_qemu>>
         ELSE EnsureFails(t, "Io")
    /\ UNCHANGED <<t_local, t_forwarded, t_drop>>
    /\ UNCHANGED <<baseVars, threadRest>>

\* let child = spawn_qemu(..)?; *guard = Some(child); drop(guard);
ensure_spawn(t) ==
    /\ t_pc[t] = "spawn_qemu"
    /\ \E spawned \in BOOLEAN :
         IF spawned
         THEN /\ Len(t_qemu) < MaxSpawns
              /\ t_qemu' = Append(t_qemu, Qemu(FALSE, FALSE, FALSE, FALSE))
              /\ t_child' = Some(Len(t_qemu) + 1)
              /\ t_owner' = 0
              /\ t_pc' = [t_pc EXCEPT ![t] = "forward"]
              /\ UNCHANGED t_ret
         ELSE EnsureFails(t, "Io")
    /\ UNCHANGED <<t_local, t_forwarded, t_drop>>
    /\ UNCHANGED <<baseVars, threadRest>>

\* port_guard.extend_from_slice(ports); drop(port_guard);
ensure_forward(t) ==
    /\ t_pc[t] = "forward"
    /\ \E ports \in ThreadPorts : t_forwarded' = t_forwarded \o ports
    /\ t_pc' = [t_pc EXCEPT ![t] = "wait_for_vm_ready"]
    /\ UNCHANGED <<t_owner, t_child, t_qemu, t_local, t_ret, t_drop>>
    /\ UNCHANGED <<baseVars, threadRest>>

\* wait_for_vm_ready(): a pong within sixty seconds, or a Config error.
ensure_wait(t) ==
    /\ t_pc[t] = "wait_for_vm_ready"
    /\ \/ \E c \in Listening(t_qemu) :
            /\ t_qemu' = [t_qemu EXCEPT ![c].ponged = TRUE]
            /\ t_ret' = [t_ret EXCEPT ![t] = Returned("ensure_vm_running", "Ok", TRUE, 0)]
       \/ /\ t_ret' = [t_ret EXCEPT ![t] = Returned("ensure_vm_running", "Config", FALSE, 0)]
          /\ UNCHANGED t_qemu
    /\ t_pc' = [t_pc EXCEPT ![t] = "idle"]
    /\ UNCHANGED <<t_owner, t_child, t_local, t_forwarded, t_drop>>
    /\ UNCHANGED <<baseVars, threadRest>>

\* The guest boots and its agent starts to listen.
agent_boots ==
    /\ \E c \in 1..Len(t_qemu) :
         /\ ~t_qemu[c].ready
         /\ ~t_qemu[c].killed
         /\ t_qemu' = [t_qemu EXCEPT ![c].ready = TRUE]
    /\ UNCHANGED <<t_pc, t_owner, t_child, t_local, t_forwarded, t_ret, t_drop>>
    /\ UNCHANGED <<baseVars, threadRest>>

\* A caller enters stop_vm.
call_stop_vm(t) ==
    /\ t_drop = "live"
    /\ t_pc[t] = "idle"
    /\ t_pc' = [t_pc EXCEPT ![t] = "stop_lock"]
    /\ UNCHANGED <<t_owner, t_child, t_qemu, t_local, t_forwarded, t_ret, t_drop>>
    /\ UNCHANGED <<baseVars, threadRest>>

\* impl Drop for VMBackend: let _ = self.stop_vm(). Drop has the backend
\* to itself, so no other call is under way.
drop_backend ==
    /\ t_drop = "live"
    /\ ThreadIdle
    /\ t_drop' = "dropping"
    /\ t_pc' = [t_pc EXCEPT ![1] = "stop_lock"]
    /\ UNCHANGED <<t_owner, t_child, t_qemu, t_local, t_forwarded, t_ret>>
    /\ UNCHANGED <<baseVars, threadRest>>

\* stop_vm returns Ok(()); when Drop ran it, the backend is gone.
StopReturns(t, took) ==
    /\ t_pc' = [t_pc EXCEPT ![t] = "idle"]
    /\ t_ret' = [t_ret EXCEPT ![t] = Returned("stop_vm", "Ok", FALSE, took)]
    /\ t_drop' = IF t_drop = "dropping" THEN "dropped" ELSE t_drop

\* let mut guard = lock_vm_process(&self.vm_process)?;
stop_lock(t) ==
    /\ t_pc[t] = "stop_lock"
    /\ t_owner = 0
    /\ t_owner' = t
    /\ t_pc' = [t_pc EXCEPT ![t] = "stop_take"]
    /\ UNCHANGED <<t_child, t_qemu, t_local, t_forwarded, t_ret, t_drop>>
    /\ UNCHANGED <<baseVars, threadRest>>

\* if let Some(mut child) = guard.take() { drop(guard); .. } Ok(())
stop_take(t) ==
    /\ t_pc[t] = "stop_take"
    /\ t_owner' = 0
    /\ t_child' = None
    /\ IF t_child.is_some
       THEN /\ t_local' = [t_local EXCEPT ![t] = t_child.some]
            /\ t_pc' = [t_pc EXCEPT ![t] = "kill"]
            /\ UNCHANGED <<t_ret, t_drop>>
       ELSE /\ StopReturns(t, 0)
            /\ UNCHANGED t_local
    /\ UNCHANGED <<t_qemu, t_forwarded>>
    /\ UNCHANGED <<baseVars, threadRest>>

\* let _ = child.kill();
stop_kill(t) ==
    /\ t_pc[t] = "kill"
    /\ t_qemu' = Kill(t_qemu, t_local[t])
    /\ t_pc' = [t_pc EXCEPT ![t] = "wait"]
    /\ UNCHANGED <<t_owner, t_child, t_local, t_forwarded, t_ret, t_drop>>
    /\ UNCHANGED <<baseVars, threadRest>>

\* let _ = child.wait(); and the return.
stop_wait(t) ==
    /\ t_pc[t] = "wait"
    /\ t_qemu' = Wait(t_qemu, t_local[t])
    /\ t_local' = [t_local EXCEPT ![t] = 0]
    /\ StopReturns(t, t_local[t])
    /\ UNCHANGED <<t_owner, t_child, t_forwarded>>
    /\ UNCHANGED <<baseVars, threadRest>>

ThreadStart ==
    /\ t_pc = [t \in Threads |-> "idle"]
    /\ t_owner = 0
    /\ t_child = None
    /\ t_qemu = <<>>
    /\ t_local = [t \in Threads |-> 0]
    /\ t_forwarded = <<>>
    /\ t_ret = [t \in Threads |-> Returned("none", "none", FALSE, 0)]
    /\ t_drop = "live"

\* ------------------------------------------------- send_rpc, try by try
RPC_MAX_RETRIES == 8

\* The lifecycle requests VMBackend sends.
RpcMethods == {"create", "start", "list"}

\* What may happen to one try_send_rpc: the connection is refused; the
\* request cannot be written; the request is written and no line comes back
\* before the read fails or times out; the connection is closed with nothing
\* on it; a line comes back that is not JSON; the agent's line comes back.
AttemptOutcomes ==
    {"connect_fails", "write_fails", "read_fails", "empty", "malformed", "reply"}

\* The outcomes in which the agent has read the request line and run its
\* handler before the client gives up on the connection.
Delivered == {"read_fails", "malformed", "reply"}

AgentError(value) ==
    [kind |-> "Err", error |-> "Config", message |-> <<"VM agent error: ", value>>]

\* No attempt yet, and no line written by the agent.
NoLine == [keys |-> {}, value |-> "none"]

NoAttempt == [out |-> "none", line |-> NoLine]

\* try_send_rpc: connect, write the line, read one line, parse it. `line`
\* is what the agent wrote, whether or not it reached the client intact.
try_send_rpc(store, request, pid, out) ==
    LET r == Handle(store, request.method, request.id, pid) IN
    CASE out = "connect_fails" -> [store |-> store, line |-> NoLine, ret |-> IoError]
      [] out = "write_fails"   -> [store |-> store, line |-> NoLine, ret |-> IoError]
      [] out = "read_fails"    -> [store |-> r.store, line |-> r.lines[1], ret |-> IoError]
      [] out = "empty"         ->
             [store |-> store, line |-> NoLine,
              ret |-> ConfigError(<<"empty response from VM agent">>)]
      [] out = "malformed"     ->
             [store |-> r.store, line |-> r.lines[1], ret |-> SerializationError]
      [] OTHER                 ->
             [store |-> r.store, line |-> r.lines[1], ret |-> Ok(r.lines[1])]

\* What send_rpc does with the result of one attempt: an error is kept in
\* last_err and the loop goes on, a value with an "error" key is returned as
\* a Config error, any other value is returned.
AfterAttempt(ret) ==
    IF ret.kind = "Err" THEN [returns |-> FALSE, ret |-> ret]
    ELSE IF "error" \in ret.value.keys
         THEN [returns |-> TRUE, ret |-> AgentError(ret.value.value)]
         ELSE [returns |-> TRUE, ret |-> ret]

\* A lifecycle call builds its request and enters send_rpc.
rpc_call ==
    /\ p_pc # "attempt"
    /\ \E method \in RpcMethods, id \in RequestIds :
         p_request' = [method |-> method, id |-> id]
    /\ p_pc' = "attempt"
    /\ p_attempt' = 0
    /\ p_prev' = NoAttempt
    /\ p_last' = NoResult
    /\ p_executed' = 0
    /\ p_ret' = NoResult
    /\ UNCHANGED p_store
    /\ UNCHANGED <<baseVars, rpcRest>>

\* One turn of `for attempt in 0..RPC_MAX_RETRIES`, and the return after
\* the loop when it was the last.
rpc_attempt ==
    /\ p_pc = "attempt"
    /\ p_attempt < RPC_MAX_RETRIES
    /\ \E out \in AttemptOutcomes, pid \in Pids :
         /\ (out \in Delivered /\ p_request.method = "create")
                => p_store.next < MaxContainers
         /\ LET t == try_send_rpc(p_store, p_request, pid, out)
                a == AfterAttempt(t.ret)
            IN  /\ p_store' = t.store
                /\ p_prev' = [out |-> out, line |-> t.line]
                /\ p_executed' = IF out \in Delivered THEN p_executed + 1 ELSE p_executed
                /\ p_attempt' = p_attempt + 1
                /\ IF a.returns
                   THEN /\ p_pc' = "returned"
                        /\ p_ret' = a.ret
                        /\ UNCHANGED p_last
                   ELSE /\ p_last' = a.ret
                        /\ IF p_attempt + 1 = RPC_MAX_RETRIES
                           THEN p_pc' = "returned" /\ p_ret' = a.ret
                           ELSE UNCHANGED <<p_pc, p_ret>>
    /\ UNCHANGED p_request
    /\ UNCHANGED <<baseVars, rpcRest>>

RpcStart ==
    /\ p_pc = "idle"
    /\ p_request = [method |-> "none", id |-> EmptyId]
    /\ p_attempt = 0
    /\ p_prev = NoAttempt
    /\ p_last = NoResult
    /\ p_store = [next |-> 0, meta |-> [i \in 1..MaxContainers |-> "none"],
                  pid |-> {}, rootfs |-> {}, logs |-> {}]
    /\ p_executed = 0
    /\ p_ret = NoResult

\* ------------------------------------------------------- cpio newc archive
\* Bytes are numbers 0..255; text is its ASCII codes.
MaxArchive == 2

\* The length of a newc header: the magic and thirteen fields of eight
\* hexadecimal digits.
HeaderLen == 110

\* "070701"
Magic == <<48, 55, 48, 55, 48, 49>>

\* "TRAILER!!!"
TrailerName == <<84, 82, 65, 73, 76, 69, 82, 33, 33, 33>>

\* {:X} of one digit, and the digit of one character (16 when it is none).
HexChar(d) == IF d < 10 THEN 48 + d ELSE 55 + d

HexValue(b) ==
    IF b >= 48 /\ b <= 57 THEN b - 48
    ELSE IF b >= 65 /\ b <= 70 THEN b - 55
    ELSE IF b >= 97 /\ b <= 102 THEN b - 87
    ELSE 16

RECURSIVE Pow16(_)
Pow16(n) == IF n = 0 THEN 1 ELSE 16 * Pow16(n - 1)

\* {:08X}
Hex8(v) == [i \in 1..8 |-> HexChar((v \div Pow16(8 - i)) % 16)]

RECURSIVE FromRadix16(_)
FromRadix16(digits) ==
    IF digits = <<>> THEN 0
    ELSE 16 * FromRadix16(SubSeq(digits, 1, Len(digits) - 1))
         + HexValue(digits[Len(digits)])

\* parse_hex: u32::from_str_radix(s, 16).unwrap_or(0)
parse_hex(bytes) ==
    IF \A i \in 1..Len(bytes) : HexValue(bytes[i]) < 16
    THEN FromRadix16(bytes) ELSE 0

RECURSIVE Zeros(_)
Zeros(n) == IF n = 0 THEN <<>> ELSE <<0>> \o Zeros(n - 1)

\* CpioWriter::raw_write
raw_write(w, buf) == [w EXCEPT !.bytes = @ \o buf, !.pos = @ + Len(buf)]

\* CpioWriter::align4
align4Never(w) == w

align4(w) ==
    LET pad == (4 - (w.pos % 4)) % 4 IN
    IF pad > 0 THEN raw_write(w, Zeros(pad)) ELSE w

\* The header write_entry formats: ino, mode, uid, gid, nlink, mtime,
\* filesize, devmajor, devminor, rdevmajor, rdevminor, namesize, check.
Header(ino, mode, filesize, namesize) ==
    Magic \o Hex8(ino) \o Hex8(mode) \o Hex8(0) \o Hex8(0)
          \o Hex8(1) \o Hex8(0) \o Hex8(filesize) \o Hex8(0)
          \o Hex8(0) \o Hex8(0) \o Hex8(0) \o Hex8(namesize)
          \o Hex8(0)

\* CpioWriter::write_entry
write_entry(w, name, mode, data) ==
    LET w1 == [w EXCEPT !.ino = @ + 1]
        name_nul == name \o <<0>>
        w2 == raw_write(w1, Header(w1.ino, mode, Len(data), Len(name_nul)))
        w3 == align4(raw_write(w2, name_nul))
    IN  align4(raw_write(w3, data))

\* CpioWriter::write_trailer
write_trailer(w) == write_entry(w, TrailerName, 0, <<>>)

\* CpioWriter::new
NewWriter == [bytes |-> <<>>, ino |-> 300000, pos |-> 0]

CpioEntry(name, mode, data) == [name |-> name, mode |-> mode, data |-> data]

\* read_exact: the next n bytes, when the stream still has that many.
HasBytes(bytes, at, n) == at + n <= Len(bytes)

Take(bytes, at, n) == SubSeq(bytes, at + 1, at + n)

\* CpioReader::skip_padding: where the reader stands after it; a read past
\* the end is ignored.
skip_padding(bytes, at, offset) ==
    LET pad == (4 - (offset % 4)) % 4 IN
    IF HasBytes(bytes, at, pad) THEN at + pad ELSE Len(bytes)

\* trim_end_matches('\0')
RECURSIVE trim_end_nul(_)
trim_end_nul(s) ==
    IF s # <<>> /\ s[Len(s)] = 0 THEN trim_end_nul(SubSeq(s, 1, Len(s) - 1)) ELSE s

\* CpioReader::next_entry
next_entry(bytes, at) ==
    IF ~HasBytes(bytes, at, HeaderLen) THEN [at |-> Len(bytes), ret |-> Ok(None)]
    ELSE LET header == Take(bytes, at, HeaderLen)
             mode == parse_hex(SubSeq(header, 15, 22))
             filesize == parse_hex(SubSeq(header, 55, 62))
             namesize == parse_hex(SubSeq(header, 95, 102))
             named == at + HeaderLen + namesize
             padded == skip_padding(bytes, named, HeaderLen + namesize)
         IN  IF SubSeq(header, 1, 6) # Magic
             THEN [at |-> at + HeaderLen, ret |-> ConfigError(<<"invalid CPIO magic">>)]
             ELSE IF ~HasBytes(bytes, at + HeaderLen, namesize)
             THEN [at |-> Len(bytes), ret |-> IoError]
             ELSE IF ~HasBytes(bytes, padded, filesize)
             THEN [at |-> Len(bytes), ret |-> IoError]
             ELSE [at |-> skip_padding(bytes, padded + filesize, filesize),
                   ret |-> Ok(Some(CpioEntry(
                       trim_end_nul(Take(bytes, at + HeaderLen, namesize)),
                       mode,
                       Take(bytes, padded, filesize))))]

\* The entries packed: names and data of every length modulo 4, files and
\* directories.
CpioNames == {<<>>, <<97>>, <<97, 98>>, <<105, 110, 105>>}

CpioData == {<<>>, <<1>>, <<1, 2>>, <<1, 2, 3>>}

\* 0o100_755, a file, and 0o040_755, the mode write_dir passes with no data.
CpioInputs ==
    {CpioEntry(name, 33261, data) : name \in CpioNames, data \in CpioData}
        \cup {CpioEntry(name, 16877, <<>>) : name \in CpioNames}

\* write_entry of one more entry.
cpio_write_entry ==
    /\ o_pc = "packing"
    /\ Len(o_written) < MaxArchive
    /\ \E entry \in CpioInputs :
         /\ o_writer' = write_entry(o_writer, entry.name, entry.mode, entry.data)
         /\ o_written' = Append(o_written, entry)
    /\ UNCHANGED <<o_pc, o_at, o_read>>
    /\ UNCHANGED <<baseVars, cpioRest>>

\* write_trailer and finish: the archive is complete.
cpio_write_trailer ==
    /\ o_pc = "packing"
    /\ o_writer' = write_trailer(o_writer)
    /\ o_pc' = "reading"
    /\ UNCHANGED <<o_written, o_at, o_read>>
    /\ UNCHANGED <<baseVars, cpioRest>>

\* next_entry on a reader over the archive, until it returned None or an
\* error.
cpio_next_entry ==
    /\ o_pc = "reading"
    /\ LET r == next_entry(o_writer.bytes, o_at)
       IN  /\ o_at' = r.at
           /\ o_read' = Append(o_read, r.ret)
           /\ o_pc' = IF r.ret.kind = "Ok" /\ r.ret.value.is_some
                      THEN "reading" ELSE "done"
    /\ UNCHANGED <<o_writer, o_written>>
    /\ UNCHANGED <<baseVars, cpioRest>>

CpioStart ==
    /\ o_pc = "packing"
    /\ o_writer = NewWriter
    /\ o_written = <<>>
    /\ o_at = 0
    /\ o_read = <<>>

\* ------------------------------------------------------- drop_capabilities
CAP_LAST_CAP == 40

Capabilities == {"NetBindService", "Chown", "Kill", "Setuid", "Setgid"}

\* Capability::linux_cap_number
linux_cap_number(c) ==
    CASE c = "Chown"  -> 0
      [] c = "Kill"   -> 5
      [] c = "Setgid" -> 6
      [] c = "Setuid" -> 7
      [] OTHER        -> 10

\* kept_caps
KeptCaps(keep) == {linux_cap_number(c) : c \in keep}

\* The last capability number of the running kernel: 37 up to Linux 5.7,
\* 40 (CAP_CHECKPOINT_RESTORE) since 5.9.
KernelLastCaps == {37, 40}

Kernels == [last : KernelLastCaps, setpcap : BOOLEAN]

PermissionDenied(cap) == [kind |-> "Err", error |-> "PermissionDenied", cap |-> cap]

\* prctl(PR_CAPBSET_DROP, cap): EINVAL for a number the kernel does not
\* know, EPERM without CAP_SETPCAP, else the number leaves the set.
prctl_drop(kernel, cap) ==
    IF cap > kernel.last THEN "EINVAL"
    ELSE IF ~kernel.setpcap THEN "EPERM"
    ELSE "ok"

\* drop_single_cap
drop_single_cap(kernel, cap) ==
    LET errno == prctl_drop(kernel, cap) IN
    IF errno = "ok" \/ errno = "EINVAL" THEN Ok(cap) ELSE PermissionDenied(cap)

\* The numbers `for cap in 0..CAP_LAST_CAP` runs through.
LoopCaps == 0..(CAP_LAST_CAP - 1)

\* drop_capabilities(keep) is called in a process whose bounding set is full.
caps_call ==
    /\ q_pc = "idle"
    /\ q_keep' \in SUBSET Capabilities
    /\ q_kernel' \in Kernels
    /\ q_bounding' = 0..q_kernel'.last
    /\ q_pc' = IF LoopCaps = {} THEN "returned" ELSE "loop"
    /\ q_cap' = 0
    /\ q_tried' = {}
    /\ q_ret' = IF LoopCaps = {} THEN Ok(0) ELSE NoResult
    /\ UNCHANGED <<baseVars, capRest>>

\* One turn of the loop; the last one falls through to Ok(()).
caps_turn ==
    /\ q_pc = "loop"
    /\ LET final == (q_cap + 1) \notin LoopCaps IN
       IF q_cap \in KeptCaps(q_keep)
       THEN /\ UNCHANGED <<q_tried, q_bounding>>
            /\ q_pc' = IF final THEN "returned" ELSE "loop"
            /\ q_ret' = IF final THEN Ok(0) ELSE q_ret
       ELSE LET r == drop_single_cap(q_kernel, q_cap) IN
            /\ q_tried' = q_tried \cup {q_cap}
            /\ q_bounding' = IF prctl_drop(q_kernel, q_cap) = "ok"
                             THEN q_bounding \ {q_cap} ELSE q_bounding
            /\ q_pc' = IF r.kind = "Err" \/ final THEN "returned" ELSE "loop"
            /\ q_ret' = IF r.kind = "Err" THEN r ELSE IF final THEN Ok(0) ELSE q_ret
    /\ q_cap' = q_cap + 1
    /\ UNCHANGED <<q_keep, q_kernel>>
    /\ UNCHANGED <<baseVars, capRest>>

CapIdle ==
    /\ q_pc = "idle"
    /\ q_keep = {}
    /\ q_kernel = [last |-> 40, setpcap |-> TRUE]
    /\ q_cap = 0
    /\ q_tried = {}
    /\ q_bounding = {}
    /\ q_ret = NoResult

StoreStart ==
    /\ stateFile = NoFile
    /\ logFiles = {}
    /\ nextId = 0
    /\ container = NoContainer
    /\ last = Call("none", 0, Ok("unit"), Absent)

\* ------------------------------------------------------------ specifications
\* Nothing but the graph, the store and the deployment is in use.
RestIdle == RunIdle /\ VmStart /\ AgentStart /\ WireIdle /\ CheckIdle /\ JsonIdle /\ CatalogStart /\ MemoryIdle /\ ThreadStart /\ RpcStart /\ CpioStart /\ CapIdle

Init == GraphStart /\ StoreStart /\ DeployIdle /\ RestIdle

\* The Linux backend, the log store and a Container, driven by any caller.
Next ==
    \/ create
    \/ start
    \/ stop
    \/ remove
    \/ append_log
    \/ Container_new
    \/ Container_start
    \/ Container_stop

Spec == Init /\ [][Next]_vars

\* The dependency graph, driven by any caller.
GraphNext == add_component \/ add_dependency \/ resolve_order

SpecGraph == Init /\ [][GraphNext]_vars

\* Engine::deploy on one composition, from a fresh data directory.
DeployInit == GraphStart /\ StoreStart /\ DeployStart /\ RestIdle

DeployNext == deploy_prepare \/ deploy_create \/ deploy_start \/ deploy_return

SpecDeploy == DeployInit /\ [][DeployNext]_vars

\* ctst run: deploy, wait for Ctrl+C, stop_all.
RunInit ==
    /\ GraphStart
    /\ StoreStart
    /\ d_backend \in Backends
    /\ d_file \in RunCompositions
    /\ d_pc = "ready"
    /\ DeployVarsStart
    /\ RunStart
    /\ VmStart
    /\ AgentStart
    /\ WireIdle
    /\ CheckIdle
    /\ JsonIdle
    /\ CatalogStart
    /\ MemoryIdle
    /\ ThreadStart
    /\ RpcStart
    /\ CpioStart
    /\ CapIdle

RunNext ==
    \/ DeployNext
    \/ run_deployed
    \/ sigint
    \/ wait_observe
    \/ stop_all_call
    \/ stop_all_list
    \/ stop_all_step
    \/ stop_all_return

SpecRun == RunInit /\ [][RunNext]_vars

\* One VMBackend, its create called by any caller.
VmNext == vm_create

SpecVm == Init /\ [][VmNext]_vars

\* The guest agent, one connection after another.
AgentNext == agent_handle

SpecAgent == Init /\ [][AgentNext]_vars

\* Auto-wiring of one composition and the processes spawned with its result.
WireInit ==
    /\ GraphStart
    /\ StoreStart
    /\ DeployIdle
    /\ RunIdle
    /\ VmStart
    /\ AgentStart
    /\ WireStart
    /\ CheckIdle
    /\ JsonIdle
    /\ CatalogStart
    /\ MemoryIdle
    /\ ThreadStart
    /\ RpcStart
    /\ CpioStart
    /\ CapIdle

WireNext == wire_resolve \/ wire_spawn

SpecWire == WireInit /\ [][WireNext]_vars

\* validate on one composition.
CheckInit ==
    /\ GraphStart
    /\ StoreStart
    /\ DeployIdle
    /\ RunIdle
    /\ VmStart
    /\ AgentStart
    /\ WireIdle
    /\ CheckStart
    /\ JsonIdle
    /\ CatalogStart
    /\ MemoryIdle
    /\ ThreadStart
    /\ RpcStart
    /\ CpioStart
    /\ CapIdle

CheckNext == validate_call

SpecCheck == CheckInit /\ [][CheckNext]_vars

\* One state file saved, loaded and saved again.
JsonInit ==
    /\ GraphStart
    /\ StoreStart
    /\ DeployIdle
    /\ RunIdle
    /\ VmStart
    /\ AgentStart
    /\ WireIdle
    /\ CheckIdle
    /\ JsonStart
    /\ CatalogStart
    /\ MemoryIdle
    /\ ThreadStart
    /\ RpcStart
    /\ CpioStart
    /\ CapIdle

JsonNext == json_load \/ json_save \/ json_save_loaded

SpecJson == JsonInit /\ [][JsonNext]_vars

\* The image catalog under any sequence of register, remove and list.
CatalogNext == catalog_register \/ catalog_remove \/ catalog_list

SpecCatalog == Init /\ [][CatalogNext]_vars

\* parse_memory on one string.
MemoryInit ==
    /\ GraphStart
    /\ StoreStart
    /\ DeployIdle
    /\ RunIdle
    /\ VmStart
    /\ AgentStart
    /\ WireIdle
    /\ CheckIdle
    /\ JsonIdle
    /\ CatalogStart
    /\ MemoryStart
    /\ ThreadStart
    /\ RpcStart
    /\ CpioStart
    /\ CapIdle

MemoryNext == memory_parse

SpecMemory == MemoryInit /\ [][MemoryNext]_vars

\* One VMBackend shared by the threads, every step of ensure_vm_running and
\* stop_vm an action of its own.
ThreadNext ==
    \/ \E t \in Threads : call_ensure_vm_running(t)
    \/ \E t \in Threads : ensure_lock(t)
    \/ \E t \in Threads : ensure_check(t)
    \/ \E t \in Threads : ensure_find_qemu(t)
    \/ \E t \in Threads : ensure_assets(t)
    \/ \E t \in Threads : ensure_spawn(t)
    \/ \E t \in Threads : ensure_forward(t)
    \/ \E t \in Threads : ensure_wait(t)
    \/ agent_boots
    \/ \E t \in Threads : call_stop_vm(t)
    \/ drop_backend
    \/ \E t \in Threads : stop_lock(t)
    \/ \E t \in Threads : stop_take(t)
    \/ \E t \in Threads : stop_kill(t)
    \/ \E t \in Threads : stop_wait(t)

SpecThread == Init /\ [][ThreadNext]_vars

\* The same backend with a scheduler that lets a thread inside stop_vm go
\* on: the mutex is free whenever Drop runs, and kill and wait of a child
\* that received SIGKILL return.
ThreadFairness ==
    \A t \in Threads :
        WF_vars(stop_lock(t) \/ stop_take(t) \/ stop_kill(t) \/ stop_wait(t))

SpecThreadFair == Init /\ [][ThreadNext]_vars /\ ThreadFairness

\* The RPC client of the VM backend, one call after another.
RpcNext ==
    \/ rpc_call
    \/ rpc_attempt

SpecRpc == Init /\ [][RpcNext]_vars

\* An archive packed entry by entry and read back.
CpioNext ==
    \/ cpio_write_entry
    \/ cpio_write_trailer
    \/ cpio_next_entry

SpecCpio == Init /\ [][CpioNext]_vars

\* One call of drop_capabilities, turn by turn.
CapNext ==
    \/ caps_call
    \/ caps_turn

SpecCap == Init /\ [][CapNext]_vars

\* Every operation of the Linux backend, called by one caller in any order.
LinuxNext ==
    \/ create
    \/ start
    \/ stop
    \/ remove
    \/ append_log
    \/ linux_exec
    \/ linux_logs
    \/ linux_list

SpecLinux == Init /\ [][LinuxNext]_vars

\* ------------------------------------------------------- graph: properties
Range(s) == {s[i] : i \in 1..Len(s)}

\* The nodes that the nodes of S depend on directly, by the calls made.
DirectDeps(S, deps) == {d[2] : d \in {x \in Range(deps) : x[1] \in S}}

RECURSIVE DepsWithin(_, _, _)
DepsWithin(S, deps, k) ==
    IF k = 0 THEN S ELSE DepsWithin(S \cup DirectDeps(S, deps), deps, k - 1)

\* Some node depends on itself through one or more add_dependency calls.
Cyclic(n, deps) ==
    \E v \in 1..n : v \in DepsWithin(DirectDeps({v}, deps), deps, n)

Positions(order, name) == {j \in 1..Len(order) : order[j] = name}

Contains(words, w) == \E i \in 1..Len(words) : words[i] = w

\* C1: for an acyclic graph resolve_order returns an order that holds every
\* added node exactly once, each dependency at a strictly smaller index than
\* its dependent.
C1_AcyclicOrder ==
    (g_result # NoResult /\ ~Cyclic(Len(g_nodes), g_deps)) =>
        /\ g_result.kind = "Ok"
        /\ Len(g_result.order) = Len(g_nodes)
        /\ \A i \in 1..Len(g_nodes) :
               Cardinality(Positions(g_result.order, g_nodes[i])) = 1
        /\ \A k \in 1..Len(g_deps) :
               \A pd \in Positions(g_result.order, g_nodes[g_deps[k][2]]),
                  pt \in Positions(g_result.order, g_nodes[g_deps[k][1]]) : pd < pt

C1_Witness ==
    /\ g_result # NoResult
    /\ g_result.kind = "Ok"
    /\ Len(g_nodes) = 3
    /\ Len(g_deps) >= 2
    /\ g_deps[1] # g_deps[2]

\* C2: when the dependencies hold a cycle of any length, resolve_order returns
\* one Config error whose message contains "cyclic", and no order.
C2_CycleIsConfigError ==
    (g_result # NoResult /\ Cyclic(Len(g_nodes), g_deps)) =>
        /\ g_result.kind = "Err"
        /\ g_result.error = "Config"
        /\ Contains(g_result.message, "cyclic")

C2_Witness ==
    /\ g_result # NoResult
    /\ g_result.kind = "Err"
    /\ Len(g_nodes) = 3
    /\ Len(g_deps) = 3
    /\ \A k \in 1..Len(g_deps) : g_deps[k][1] # g_deps[k][2]
    /\ \A j, k \in 1..Len(g_deps) : g_deps[j] # <<g_deps[k][2], g_deps[k][1]>>

\* ------------------------------------------------------ deploy: properties
\* The backend calls made before call k that returned Ok.
ReturnedOk(op, name, k) ==
    \E j \in 1..(k - 1) :
        /\ d_trace[j].op = op
        /\ d_trace[j].name = name
        /\ d_trace[j].ret.kind = "Ok"

\* C3: deploy's backend calls follow the topological order: create and start
\* of one component both return before create of the next, components in the
\* resolved order, and for every connection from -> to, start(to) has returned
\* Ok before create(from) is called.
C3_SideEffectsInOrder ==
    /\ \A k \in 1..Len(d_trace) :
           /\ d_trace[k].op = IF k % 2 = 1 THEN "create" ELSE "start"
           /\ d_trace[k].name = d_order[(k + 1) \div 2]
           /\ k % 2 = 0 =>
                  /\ d_trace[k - 1].ret.kind = "Ok"
                  /\ d_trace[k].id = d_trace[k - 1].ret.value
           /\ (k % 2 = 1 /\ k > 1) => d_trace[k - 1].ret.kind = "Ok"
    /\ \A c \in 1..Len(d_file.connections), k \in 1..Len(d_trace) :
           (d_trace[k].op = "create" /\ d_trace[k].name = d_file.connections[c].from) =>
               ReturnedOk("start", d_file.connections[c].to, k)

\* A chain of three components has been deployed, the last declared first.
C3_Witness ==
    /\ d_pc = "returned"
    /\ d_ret.kind = "Ok"
    /\ Len(d_trace) = 6
    /\ Len(d_file.connections) = 2
    /\ d_file.connections[1].to = d_file.connections[2].from
    /\ d_file.connections[1].from # d_file.connections[2].to
    /\ d_trace[1].name = NodeNames[3]

\* C4: when create or start fails for a component, deploy returns that error
\* and no list, makes no further backend call, and every container that create
\* returned so far is still in the state file.
C4_FailureAborts ==
    \A k \in 1..Len(d_trace) :
        d_trace[k].ret.kind = "Err" =>
            /\ k = Len(d_trace)
            /\ d_pc = "returned"
            /\ d_ret = d_trace[k].ret
            /\ \A j \in 1..k :
                   (d_trace[j].op = "create" /\ d_trace[j].ret.kind = "Ok") =>
                       EntryOf(stateFile, d_trace[j].ret.value) # Absent

\* start failed for the second component, after the first was started and the
\* second created.
C4_Witness ==
    /\ Len(d_trace) = 4
    /\ d_trace[4].op = "start"
    /\ d_trace[4].ret.kind = "Err"
    /\ d_pc = "returned"
    /\ Len(d_order) = 3

\* The names a component in S is connected to.
ConnectedTo(S, connections) ==
    {connections[k].to : k \in {x \in 1..Len(connections) : connections[x].from \in S}}

RECURSIVE ConnectedWithin(_, _, _)
ConnectedWithin(S, connections, k) ==
    IF k = 0 THEN S
    ELSE ConnectedWithin(S \cup ConnectedTo(S, connections), connections, k - 1)

\* Some name is connected to itself through one or more connections.
CyclicComposition(file) ==
    \E k \in 1..Len(file.connections) :
        file.connections[k].from \in
            ConnectedWithin({file.connections[k].to}, file.connections,
                            Len(file.connections))

\* deploy has returned for a composition that parse_ctst accepts and that has
\* a cyclic dependency.
CycleDeployed ==
    /\ d_pc = "returned"
    /\ validate(d_file).kind = "Ok"
    /\ CyclicComposition(d_file)

\* deploy returned an error: the Config error of the cycle, unless the file
\* could not be read at all.
CycleRejected ==
    /\ d_ret.kind = "Err"
    /\ d_ret.error # "Io" =>
           /\ d_ret.error = "Config"
           /\ Contains(d_ret.message, "cyclic")

NoBackendEffect == d_trace = <<>> /\ stateFile = NoFile /\ nextId = 0

\* C5 (as stated): a composition with a cyclic dependency is rejected with
\* no backend call made, no state entry written and no directory created.
C5_CycleNoSideEffect ==
    CycleDeployed => (CycleRejected /\ NoBackendEffect /\ d_dirs = {})

\* C5 (amended): a composition with a cyclic dependency is rejected with no
\* backend call made and no state entry written; on disk nothing but the
\* project directory with its logs and state directories has been created.
C5_CycleOnlyProjectDirs ==
    CycleDeployed => (CycleRejected /\ NoBackendEffect /\ d_dirs \subseteq ProjectDirs)

\* A valid composition of two components that depend on each other was
\* rejected, the project directories created.
C5_Witness ==
    /\ d_pc = "returned"
    /\ d_ret = ConfigError(CyclicMessage)
    /\ Len(d_file.components) = 2
    /\ Len(d_file.connections) = 2
    /\ d_file.connections[1].from # d_file.connections[1].to
    /\ d_dirs = ProjectDirs

\* --------------------------------------------- state machine: properties
States == {"Created", "Running", "Stopped", "Failed"}

\* A container that exists before and after a step (a state file entry, or the
\* Container) changes state in the step only along an allowed transition.
Along(before, after, allowed) ==
    (before.state \in States /\ after.state \in States /\ before.state # after.state) =>
        <<before.state, after.state>> \in allowed

StatedTransitions ==
    {<<"Created", "Running">>, <<"Running", "Stopped">>}
        \cup {<<s, "Failed">> : s \in States}

CodeTransitions ==
    StatedTransitions \cup {<<"Created", "Stopped">>, <<"Stopped", "Running">>}

OnlyTransitions(allowed) ==
    /\ Along(container, container', allowed)
    /\ \A id \in 1..MaxContainers :
           Along(EntryOf(stateFile, id), EntryOf(stateFile', id), allowed)

\* C6 (as stated): a container's state changes only along Created->Running,
\* Running->Stopped or any->Failed; never from Created to Stopped, and never
\* once it is Stopped.
C6_StatedTransitionsOnly == [][OnlyTransitions(StatedTransitions)]_vars

\* C6 (amended): a container's state changes only along Created->Running,
\* Running->Stopped, Created->Stopped, Stopped->Running or any->Failed.
C6_CodeTransitionsOnly == [][OnlyTransitions(CodeTransitions)]_vars

\* A stopped Container has just been started again.
C6_Witness ==
    /\ last.op = "Container::start"
    /\ last.ret.kind = "Ok"
    /\ last.was.state = "Stopped"
    /\ container.state = "Running"

\* C7: after start returns Ok for an entry in state Created, the persisted
\* entry is Running and its pid is the PID that start returned.
C7_StartPersistsRunning ==
    (last.op = "start" /\ last.ret.kind = "Ok"
        /\ last.was # Absent /\ last.was.state = "Created") =>
        /\ EntryOf(stateFile, last.id) # Absent
        /\ EntryOf(stateFile, last.id).state = "Running"
        /\ EntryOf(stateFile, last.id).pid = Some(last.ret.value)

\* C8: after a successful stop of a container that exists, whatever its state
\* was, the container is Stopped and its pid is None.
C8_StopClearsPid ==
    /\ (last.op = "stop" /\ last.ret.kind = "Ok" /\ last.was # Absent) =>
           /\ EntryOf(stateFile, last.id) # Absent
           /\ EntryOf(stateFile, last.id).state = "Stopped"
           /\ EntryOf(stateFile, last.id).pid = None
    /\ (last.op = "Container::stop" /\ last.ret.kind = "Ok") =>
           /\ container.state = "Stopped"
           /\ container.pid = None

\* A running Container with a PID has just been stopped.
C8_Witness ==
    /\ last.op = "Container::stop"
    /\ last.ret.kind = "Ok"
    /\ last.was.state = "Running"
    /\ last.was.pid \in {Some(p) : p \in Pids}
    /\ container.state = "Stopped"

\* C9: after remove(id) returns Ok, the state file holds no entry for id and
\* the log file of id no longer exists.
C9_RemovePurges ==
    (last.op = "remove" /\ last.ret.kind = "Ok") =>
        /\ EntryOf(stateFile, last.id) = Absent
        /\ last.id \notin logFiles

\* C10: stop of an id that the state holds no entry for returns an error and
\* leaves the state file as it was.
C10_StopAbsentIsError ==
    [][(last'.op = "stop" /\ EntryOf(stateFile, last'.id) = Absent) =>
           /\ last'.ret.kind = "Err"
           /\ stateFile' = stateFile]_vars

\* ------------------------------------------------------ stop_all: properties
\* The ids of the listed containers whose state reads "running", in list order.
RECURSIVE ListedRunning(_)
ListedRunning(list) ==
    IF list = <<>> THEN <<>>
    ELSE (IF Head(list).state = "running" THEN <<Head(list).id>> ELSE <<>>)
             \o ListedRunning(Tail(list))

StoppedIds == [j \in 1..Len(r_stops) |-> r_stops[j].id]

IsPrefix(a, b) == Len(a) <= Len(b) /\ a = SubSeq(b, 1, Len(a))

\* C11: stop_all calls backend.stop only for containers listed as "running",
\* each once and in list order; when it returns Ok it has called stop for every
\* one of them, and no container is listed as "running" any more.
C11_StopsExactlyRunning ==
    /\ IsPrefix(StoppedIds, ListedRunning(r_list))
    /\ r_ret = Ok("unit") =>
           /\ StoppedIds = ListedRunning(r_list)
           /\ ListedRunning(BackendList(d_backend, stateFile, "ok").value) = <<>>

\* stop_all returned Ok over a list that held a running container after one
\* that was not running, and it made a stop call.
C11_Witness ==
    /\ r_ret = Ok("unit")
    /\ Len(r_stops) >= 1
    /\ Len(r_list) > Len(r_stops)

\* C12: when a non-detached run has seen Ctrl+C and stop_all has returned Ok,
\* backend.stop was called for every container the run deployed and started,
\* and each of them is Stopped.
C12_SigintStopsDeployed ==
    (r_pc = "exited" /\ r_running = Some(FALSE) /\ r_ret = Ok("unit")) =>
        \A j \in 1..Len(d_deployed) :
            /\ \E k \in 1..Len(r_stops) : r_stops[k].id = d_deployed[j].id
            /\ EntryOf(stateFile, d_deployed[j].id) # Absent
            /\ EntryOf(stateFile, d_deployed[j].id).state = "Stopped"

\* ---------------------------------------------------- VM backend: properties
\* C13: for every container created through the VM backend with a port P, the
\* QEMU instance forwards host port P to guest port P, next to the agent port.
C13_EveryPortForwarded ==
    \A k \in 1..Len(v_creates) :
        (v_creates[k].ret.kind = "Ok" /\ v_creates[k].port # None) =>
            /\ v_process # None
            /\ VM_PORT \in v_process.some.hostfwd
            /\ v_creates[k].port.some \in v_process.some.hostfwd

\* --------------------------------------------------- guest agent: properties
\* C14: for every request line the handler writes exactly one reply line, an
\* object with exactly one of the keys "result" and "error".
C14_OneReplyLine ==
    a_request.method # "none" =>
        /\ Len(a_reply) = 1
        /\ Cardinality(a_reply[1].keys) = 1
        /\ a_reply[1].keys \subseteq {"result", "error"}

\* The agent answered the remove of a container it knows with one line.
C14_Witness ==
    /\ a_request.method = "remove"
    /\ a_request.known
    /\ a_request.id # EmptyId
    /\ Len(a_reply) = 1

\* ---------------------------------------------------- auto-wiring: properties
\* What the claims call UPPERCASE(T) and decimal P, written out.
UppercaseName(name) ==
    CASE name = <<"a", "p", "i">> -> <<"A", "P", "I">>
      [] name = <<"d", "b">>      -> <<"D", "B">>
      [] name = <<"q", "1">>      -> <<"Q", "1">>

DecimalPort(port) ==
    CASE port = 80   -> <<"8", "0">>
      [] port = 5432 -> <<"5", "4", "3", "2">>
      [] port = 8080 -> <<"8", "0", "8", "0">>

\* The declared env of a component as a sequence of pairs.
DeclaredPairs(comp) ==
    IF comp.env = <<>> THEN <<>>
    ELSE << <<DB_HOST, <<"m", "y">> >>, << <<"K", "E", "Y">>, <<"v">> >> >>

\* The pairs the connections k.. of the file owe to component `from`.
RECURSIVE OwedPairs(_, _, _)
OwedPairs(file, from, k) ==
    IF k > Len(file.connections) THEN <<>>
    ELSE LET conn == file.connections[k]
             target == CHOOSE c \in Range(file.components) : c.name = conn.to
             owed == IF conn.from # from THEN <<>>
                     ELSE << <<UppercaseName(conn.to) \o <<"_", "H", "O", "S", "T">>, conn.to>> >>
                          \o IF target.port = None THEN <<>>
                             ELSE << <<UppercaseName(conn.to) \o <<"_", "P", "O", "R", "T">>,
                                       DecimalPort(target.port.some)>> >>
         IN  owed \o OwedPairs(file, from, k + 1)

\* C15: for every component of a validated composition the resolved env is
\* the declared env followed by, per outgoing connection in file order, the
\* HOST pair and, exactly when the target declares a port, the PORT pair.
C15_EnvOrder ==
    (w_resolved # NoResult /\ validate(w_file).kind = "Ok") =>
        /\ w_resolved.kind = "Ok"
        /\ Len(w_resolved.value) = Len(w_file.components)
        /\ \A i \in 1..Len(w_file.components) :
               /\ w_resolved.value[i].name = w_file.components[i].name
               /\ w_resolved.value[i].env =
                      DeclaredPairs(w_file.components[i])
                          \o OwedPairs(w_file, w_file.components[i].name, 1)

\* A component with a declared env and two connections, the first to a target
\* without a port and the second to a target with one, has been resolved.
C15_Witness ==
    /\ w_resolved # NoResult
    /\ validate(w_file).kind = "Ok"
    /\ Len(w_file.connections) = 2
    /\ w_file.components[1].env # <<>>
    /\ w_file.connections[1].from = w_file.components[1].name
    /\ w_file.connections[2].from = w_file.components[1].name
    /\ w_file.connections[1].to # w_file.connections[2].to
    /\ \E c \in Range(w_file.components) :
           c.name = w_file.connections[1].to /\ c.port = None
    /\ \E c \in Range(w_file.components) :
           c.name = w_file.connections[2].to /\ c.port # None
    /\ Len(w_resolved.value[1].env) = 5

\* C16: a variable that a component declares keeps its declared value in the
\* environment of the process, whatever the connections inject.
C16_DeclaredValueWins ==
    (w_process # NoProcess /\ validate(w_file).kind = "Ok") =>
        \A key \in DOMAIN w_file.components[w_process.component].env :
            /\ key \in DOMAIN w_process.env
            /\ w_process.env[key] = w_file.components[w_process.component].env[key]

\* ------------------------------------------------------ validator: properties
\* (a) two components have the same name.
SameNameTwice(file) ==
    Cardinality({file.components[i].name : i \in 1..Len(file.components)})
        < Len(file.components)

\* (b) a connection names, as from or as to, something that is no component.
DanglingEndpoint(file) ==
    ~ ({conn.from : conn \in Range(file.connections)}
           \cup {conn.to : conn \in Range(file.connections)}
       \subseteq {comp.name : comp \in Range(file.components)})

\* (c) a component has neither a FROM template nor an image.
NoTemplateNoImage(file) ==
    \E comp \in Range(file.components) : ~comp.from_template.is_some /\ ~comp.image.is_some

\* C17: validate rejects a composition exactly when it has one of the three
\* defects (a), (b), (c); every other composition is accepted.
C17_RejectsIffDefect ==
    c_ret # NoResult =>
        /\ c_ret.kind \in {"Ok", "Err"}
        /\ c_ret.kind = "Err" <=>
               (SameNameTwice(c_file) \/ DanglingEndpoint(c_file) \/ NoTemplateNoImage(c_file))

\* validate accepted a composition that has a connection between two
\* components and a component with a FROM template and no image.
C17_Witness ==
    /\ c_ret = Ok("unit")
    /\ Len(c_file.connections) >= 1
    /\ c_file.connections[1].from # c_file.connections[1].to
    /\ \E comp \in Range(c_file.components) : comp.from_template # None /\ comp.image = None

\* ----------------------------------------------------- state file: properties
\* C18: load_state after save_state(s) returns s, entry for entry in the same
\* order; saving the loaded value again leaves the text of the file as it was;
\* load_state of a path that does not exist returns the empty state.
C18_RoundTrip ==
    /\ (j_pc = "start" /\ j_loaded # NoResult) => j_loaded = Ok(EmptyState)
    /\ j_pc \in {"loaded", "resaved"} =>
           /\ j_loaded.kind = "Ok"
           /\ Len(j_loaded.value.containers) = Len(j_state.containers)
           /\ \A i \in 1..Len(j_state.containers) :
                  j_loaded.value.containers[i] = j_state.containers[i]
    /\ j_pc = "resaved" => j_disk = j_before

\* Two entries that differ, one of them with a PID and no paths, were saved,
\* loaded and saved again.
C18_Witness ==
    /\ j_pc = "resaved"
    /\ Len(j_state.containers) = 2
    /\ j_state.containers[1] # j_state.containers[2]
    /\ j_state.containers[1].pid # None
    /\ j_state.containers[1].log_path = None
    /\ j_state.containers[2].state = "Failed"

\* -------------------------------------------------- image catalog: properties
\* The ids of the entries of a listing.
IdsOf(entries) == {entries[i].id : i \in 1..Len(entries)}

\* The entries with another id, in their order.
Without(entries, id) == SelectSeq(entries, LAMBDA entry : entry.id # id)

\* C19: register(e) puts e after all earlier entries; remove(id) deletes
\* exactly the entries with that id and keeps the others in their order;
\* remove of an id that is not in the catalog returns NotFound and changes
\* nothing.
C19_RegisterAppendsRemoveFilters ==
    /\ (k_last.op = "register" /\ k_last.ret.kind = "Ok") =>
           Listed(k_file) = k_last.before \o <<k_last.arg>>
    /\ (k_last.op = "remove" /\ k_last.ret.kind = "Ok") =>
           /\ k_last.arg \in IdsOf(k_last.before)
           /\ Listed(k_file) = Without(k_last.before, k_last.arg)
    /\ (k_last.op = "remove" /\ k_last.arg \notin IdsOf(k_last.before)) =>
           /\ Listed(k_file) = k_last.before
           /\ k_last.io # "read_fails" => k_last.ret = NotFoundError
    /\ (k_last.op = "list" /\ k_last.ret.kind = "Ok") => k_last.ret.value = k_last.before

\* remove deleted two entries of one id that stood around an entry of
\* another id.
C19_Witness ==
    /\ k_last.op = "remove"
    /\ k_last.ret.kind = "Ok"
    /\ Len(k_last.before) = 3
    /\ k_last.before[1].id = k_last.arg
    /\ k_last.before[2].id # k_last.arg
    /\ k_last.before[3].id = k_last.arg
    /\ Len(Listed(k_file)) = 1

\* --------------------------------------------------- parse_memory: properties
\* The value of a string of decimal digits, limb by limb; the value so far
\* is worked out before the next digit is taken.
RECURSIVE DecimalValue(_, _)
DecimalValue(str, acc) ==
    IF str = <<>> THEN acc
    ELSE LET next == Sum(Product(acc, FromInt(10)), Rank(Head(str)) - 1)
         IN  IF Len(next) > 0 THEN DecimalValue(Tail(str), next) ELSE <<>>

IsDecimal(str) == str # <<>> /\ \A i \in 1..Len(str) : str[i] \in Digits

\* The multiplier the claim gives for a suffix.
SuffixMultiplier(suffix) ==
    CASE suffix = <<"G", "i", "B">> -> 1073741824
      [] suffix = <<"G", "B">>      -> 1000000000
      [] suffix = <<"M", "i", "B">> -> 1048576
      [] suffix = <<"M", "B">>      -> 1000000
      [] suffix = <<"K", "i", "B">> -> 1024
      [] suffix = <<"K", "B">>      -> 1000
      [] suffix = <<>>              -> 1

KnownSuffixes ==
    {<<"G", "i", "B">>, <<"G", "B">>, <<"M", "i", "B">>, <<"M", "B">>,
     <<"K", "i", "B">>, <<"K", "B">>, <<>>}

\* C20: for a decimal number n that fits in 64 bits and any of the suffixes,
\* parse_memory returns n times the multiplier of the suffix as the
\* mathematical product, with no wrap-around; for a string that is not
\* numeric it returns no value.
C20_ExactProduct ==
    m_ret # NoResult =>
        /\ (/\ IsDecimal(m_input.number)
            /\ FitsU64(DecimalValue(m_input.number, <<>>))
            /\ m_input.suffix \in KnownSuffixes) =>
               /\ m_ret.outcome = "returns"
               /\ m_ret.value # None
               /\ SameNumber(m_ret.value.some,
                             Product(DecimalValue(m_input.number, <<>>),
                                     FromInt(SuffixMultiplier(m_input.suffix))))
        /\ m_input.number = <<"a", "b", "c">> => m_ret = Returns(None)

\* ---------------------------------------------------------------- C21
\* C21: over the life of one VMBackend QEMU is spawned at most once, under
\* any interleaving of create calls and any sequence of create and stop_vm.
C21_SpawnedAtMostOnce == Len(t_qemu) <= 1

\* ---------------------------------------------------------------- C22
\* C22: a thread that is fetching the VM assets, building the initramfs,
\* spawning QEMU, polling the agent or killing or reaping the child does
\* not hold the vm_process mutex.
C22_NoLockAcrossIo ==
    \A t \in Threads : t_pc[t] \in BlockingSteps => t_owner # t

\* ---------------------------------------------------------------- C25
Reaped(c) == t_qemu[c].killed /\ t_qemu[c].waited

C25_AfterDrop ==
    t_drop = "dropped" =>
        /\ t_child = None
        /\ \A c \in 1..Len(t_qemu) : Reaped(c)

C25_StopReturns ==
    \A t \in Threads :
        t_ret[t].fn = "stop_vm" =>
            /\ t_ret[t].result = "Ok"
            /\ t_ret[t].took # 0 => Reaped(t_ret[t].took)

C25_StopStep ==
    \A t \in Threads :
        (t_pc[t] = "stop_take" /\ t_pc'[t] # "stop_take") =>
            /\ t_child' = None
            /\ ~t_child.is_some =>
                   /\ t_pc'[t] = "idle"
                   /\ t_ret'[t].result = "Ok"
                   /\ UNCHANGED <<t_qemu, t_forwarded, t_local>>

\* C25: when a VMBackend that spawned QEMU is dropped, whatever the calls
\* before returned, every child it spawned is in the end killed and waited
\* for and the handle is empty; stop_vm empties the handle, reaps the child
\* it took, and with no child changes nothing and returns Ok.
C25_ChildReapedOnDrop ==
    /\ [](C25_AfterDrop /\ C25_StopReturns)
    /\ [][C25_StopStep]_vars
    /\ (t_drop = "dropping") ~> (t_drop = "dropped")

\* A backend whose only spawn ended in the readiness timeout, dropped.
C25_Witness ==
    /\ t_drop = "dropped"
    /\ Len(t_qemu) = 1
    /\ t_ret[1].took = 1
    /\ t_ret[2].fn = "ensure_vm_running"
    /\ t_ret[2].result = "Config"

\* ---------------------------------------------------------------- C29
\* C29: when ensure_vm_running returns Ok, the agent of the VM behind the
\* handle has answered a ping with a pong.
C29_OkMeansPong ==
    \A t \in Threads :
        (t_ret[t].fn = "ensure_vm_running" /\ t_ret[t].result = "Ok")
            => t_ret[t].answered

\* ---------------------------------------------------------------- C23
C23_AttemptStep ==
    (p_pc = "attempt" /\ p_attempt' = p_attempt + 1 /\ p_attempt >= 1)
        => p_prev.out \in {"connect_fails", "empty"}

\* C23: send_rpc makes at most eight attempts, and an attempt after the
\* first follows only a refused connection or an empty reply; every other
\* failure and every error reply is returned at once.
C23_RetryOnlyUnanswered ==
    /\ [](p_attempt <= RPC_MAX_RETRIES)
    /\ [][C23_AttemptStep]_vars

\* ---------------------------------------------------------------- C24
\* C24: an RPC whose reply is not valid JSON or is an {"error": message}
\* object returns a Config error, which for an error reply holds the
\* agent's message.
C24_ErrorReply == p_prev.out = "reply" /\ "error" \in p_prev.line.keys

C24_BadReplyIsConfig ==
    (p_pc = "returned" /\ (p_prev.out = "malformed" \/ C24_ErrorReply)) =>
        /\ p_ret.kind = "Err"
        /\ p_ret.error = "Config"
        /\ C24_ErrorReply =>
               \E i \in 1..Len(p_ret.message) : p_ret.message[i] = p_prev.line.value

\* ---------------------------------------------------------------- C30
\* C30: during one call of a lifecycle operation the agent runs the
\* handler of the request at most once.
C30_ExecutedAtMostOnce == p_executed <= 1

\* ---------------------------------------------------------------- C26
\* What reading back should return: the entries written, the trailer, None.
C26_Expected ==
    [i \in 1..(Len(o_written) + 2) |->
        IF i <= Len(o_written) THEN Ok(Some(o_written[i]))
        ELSE IF i = Len(o_written) + 1 THEN Ok(Some(CpioEntry(TrailerName, 0, <<>>)))
        ELSE Ok(None)]

C27_DropsAllButKept ==
    /\ q_tried \cap KeptCaps(q_keep) = {}
    /\ \A n \in q_tried : prctl_drop(q_kernel, n) = "EPERM" =>
           (q_pc = "returned" /\ q_ret = PermissionDenied(n) /\ q_cap = n + 1)
    /\ (q_pc = "returned" /\ q_ret.kind = "Ok") =>
           q_tried = (0..CAP_LAST_CAP) \ KeptCaps(q_keep)

\* ---------------------------------------------------------------- C28
C28_UniqueIds ==
    \A i, j \in 1..Len(stateFile.containers) :
        stateFile.containers[i].id = stateFile.containers[j].id => i = j

C28_SameButStateAndPid(a, b) ==
    a = [b EXCEPT !.state = a.state, !.pid = a.pid]

C28_Others(entries, id) == SelectSeq(entries, LAMBDA entry : entry.id # id)

C28_Step ==
    LET before == stateFile.containers
        after == stateFile'.containers
        id == last'.id
    IN  /\ last'.op = "create" =>
              \/ after = before
              \/ /\ after = Append(before, after[Len(after)])
                 /\ after[Len(after)].id = id
                 /\ after[Len(after)].state = "Created"
                 /\ after[Len(after)].pid = None
                 /\ \A i \in 1..Len(before) : before[i].id # id
        /\ last'.op = "stop" =>
              /\ Len(after) = Len(before)
              /\ \A i \in 1..Len(before) :
                    IF before[i].id = id
                    THEN C28_SameButStateAndPid(after[i], before[i])
                    ELSE after[i] = before[i]
        /\ last'.op = "remove" =>
              \/ after = before
              \/ after = C28_Others(before, id)
        /\ last'.op \in {"start", "exec", "logs", "list"} => stateFile' = stateFile

====
